---- MODULE Spec2Model ----
(***************************************************************************)
(* A model of the Jira command-line client of src/index.js: the session    *)
(* (email, apiToken, baseURL), the request layer (makeJiraRequest and the  *)
(* API functions built on it) and the prompt-driven workflow (setupMenu,   *)
(* mainMenu and the get / create / delete flows).                          *)
(*                                                                         *)
(* A JavaScript string is a sequence of atoms.  An atom is a one-character *)
(* string ("a", "@", " ") or a literal of the source kept whole            *)
(* ("Project key is required"); no literal of the source starts or ends    *)
(* with white space where it is trimmed, and none contains "@".            *)
(* An optional value (undefined, null, NaN, an absent field) is a set with *)
(* at most one element.                                                    *)
(***************************************************************************)
EXTENDS Integers, Sequences, FiniteSets, TLC

None == {}
Some(v) == {v}
The(o) == CHOOSE v \in o : TRUE

(* All strings over an alphabet, up to a length. *)
Strings(alphabet, n) == UNION {[1..k -> alphabet] : k \in 0..n}

(***************************************************************************)
(* JavaScript primitives used by the source.                               *)
(***************************************************************************)
Whitespace == {" "}
Digits == {"0", "1", "2", "3", "4", "5", "6", "7", "8", "9"}

(* A string is truthy when it is not empty. *)
Truthy(s) == Len(s) > 0

RECURSIVE trimStart(_)
trimStart(s) ==
    IF Len(s) > 0 /\ Head(s) \in Whitespace THEN trimStart(Tail(s)) ELSE s

RECURSIVE trimEnd(_)
trimEnd(s) ==
    IF Len(s) > 0 /\ s[Len(s)] \in Whitespace
    THEN trimEnd(SubSeq(s, 1, Len(s) - 1))
    ELSE s

(* String.prototype.trim *)
trim(s) == trimEnd(trimStart(s))

(* String.prototype.includes, for a one-character needle *)
includes(s, c) == \E i \in 1..Len(s) : s[i] = c

(* String.prototype.split, for a one-character separator *)
RECURSIVE split(_, _)
split(s, sep) ==
    IF ~includes(s, sep)
    THEN <<s>>
    ELSE LET i == CHOOSE k \in 1..Len(s) :
                      s[k] = sep /\ \A j \in 1..(k - 1) : s[j] # sep
         IN  <<SubSeq(s, 1, i - 1)>> \o split(SubSeq(s, i + 1, Len(s)), sep)

lowerAtom(a) ==
    CASE a = "Y" -> "y"
      [] a = "E" -> "e"
      [] a = "S" -> "s"
      [] a = "N" -> "n"
      [] a = "O" -> "o"
      [] OTHER -> a

(* String.prototype.toLowerCase *)
toLowerCase(s) == [i \in 1..Len(s) |-> lowerAtom(s[i])]

DigitVal(a) ==
    CASE a = "0" -> 0 [] a = "1" -> 1 [] a = "2" -> 2 [] a = "3" -> 3
      [] a = "4" -> 4 [] a = "5" -> 5 [] a = "6" -> 6 [] a = "7" -> 7
      [] a = "8" -> 8 [] a = "9" -> 9

RECURSIVE digitsPrefix(_)
digitsPrefix(s) ==
    IF Len(s) > 0 /\ Head(s) \in Digits
    THEN <<Head(s)>> \o digitsPrefix(Tail(s))
    ELSE <<>>

RECURSIVE decimal(_)
decimal(d) ==
    IF Len(d) = 0
    THEN 0
    ELSE decimal(SubSeq(d, 1, Len(d) - 1)) * 10 + DigitVal(d[Len(d)])

HexDigits == Digits \cup {"a", "b", "c", "d", "e", "f",
                          "A", "B", "C", "D", "E", "F"}

HexVal(a) ==
    CASE a \in Digits -> DigitVal(a)
      [] a \in {"a", "A"} -> 10 [] a \in {"b", "B"} -> 11
      [] a \in {"c", "C"} -> 12 [] a \in {"d", "D"} -> 13
      [] a \in {"e", "E"} -> 14 [] a \in {"f", "F"} -> 15

RECURSIVE hexPrefix(_)
hexPrefix(s) ==
    IF Len(s) > 0 /\ Head(s) \in HexDigits
    THEN <<Head(s)>> \o hexPrefix(Tail(s))
    ELSE <<>>

RECURSIVE hexadecimal(_)
hexadecimal(d) ==
    IF Len(d) = 0
    THEN 0
    ELSE hexadecimal(SubSeq(d, 1, Len(d) - 1)) * 16 + HexVal(d[Len(d)])

(* parseInt(s) with no radix: leading white space is skipped, one sign is  *)
(* accepted, then after "0x" or "0X" the longest run of hexadecimal digits *)
(* and otherwise the longest run of decimal digits is read, and whatever   *)
(* follows is ignored; no digit gives NaN (None).                          *)
parseInt(s) ==
    LET t == trimStart(s)
        signed == Len(t) > 0 /\ Head(t) \in {"+", "-"}
        u == IF signed THEN Tail(t) ELSE t
        hex == Len(u) >= 2 /\ u[1] = "0" /\ u[2] \in {"x", "X"}
        d == IF hex THEN hexPrefix(Tail(Tail(u))) ELSE digitsPrefix(u)
        n == IF hex THEN hexadecimal(d) ELSE decimal(d)
    IN  IF Len(d) = 0
        THEN None
        ELSE Some(IF signed /\ Head(t) = "-" THEN 0 - n ELSE n)

(* encodeURIComponent, atom by atom: the literals of the query and the     *)
(* reserved characters of the alphabets are escaped, the rest is kept.     *)
encodeAtom(a) ==
    CASE a = " " -> "%20"
      [] a = "@" -> "%40"
      [] a = "project = " -> "project%20%3D%20"
      [] a = " ORDER BY created ASC" -> "%20ORDER%20BY%20created%20ASC"
      [] OTHER -> a

encodeURIComponent(s) == [i \in 1..Len(s) |-> encodeAtom(s[i])]

(***************************************************************************)
(* The state.                                                              *)
(***************************************************************************)
VARIABLES
    email,      \* global email (line 7)
    apiToken,   \* global apiToken (line 8)
    baseURL,    \* global baseURL (line 6)
    env,        \* process.env: JIRA_EMAIL and JIRA_API_TOKEN, each optional
    rl,         \* the readline interface of main: "open" or "closed"
    pc,         \* the await at which the workflow (or the caller) is suspended
    loc,        \* the local variables of the suspended workflow functions
    apc,        \* the await at which the API function in progress is suspended
    apiArgs,    \* the arguments of the API function in progress
    inflight,   \* the transport requests issued and not yet settled
    ret,        \* the Result the last API function resolved to, if any
    isValid,    \* what the last checkCredentials resolved to, if any
    calls,      \* transport requests issued since the last menu choice
    ops,        \* setCredentials and API functions called since the last
                \* menu choice
    settled,    \* how the transport settled the last request, until the
                \* caller resumes
    oks,        \* for each settled request of calls, whether it succeeded
    typed,      \* the line just read at a selection or confirmation prompt
    out         \* the console messages printed since the last menu choice

session == <<email, apiToken, baseURL>>
Session == [email |-> email, apiToken |-> apiToken, baseURL |-> baseURL]
vars == <<email, apiToken, baseURL, env, rl, pc, loc, apc, apiArgs, inflight,
          ret, isValid, calls, ops, settled, oks, typed, out>>

(***************************************************************************)
(* Helper functions (lines 14-74).                                         *)
(***************************************************************************)
(* A variant of generateBaseURLFromEmail that takes what the email holds   *)
(* before its last '@'.                                                    *)
generateBaseURLFromEmail_LastAt(e) ==
    IF ~Truthy(e) \/ ~includes(e, "@")
    THEN <<>>
    ELSE LET last == CHOOSE i \in 1..Len(e) :
                         /\ e[i] = "@"
                         /\ \A j \in i + 1..Len(e) : e[j] # "@"
         IN  <<"https://">> \o SubSeq(e, 1, last - 1) \o <<".atlassian.net">>

(* function generateBaseURLFromEmail(email) *)
generateBaseURLFromEmail(e) ==
    IF ~Truthy(e) \/ ~includes(e, "@")
    THEN <<>>
    ELSE <<"https://">> \o split(e, "@")[1] \o <<".atlassian.net">>

(* A variant of setCredentials that derives baseURL from the email stored *)
(* before the call.                                                        *)
setCredentials_StaleURL(jiraEmail, jiraToken) ==
    /\ email' = jiraEmail
    /\ apiToken' = jiraToken
    /\ baseURL' = generateBaseURLFromEmail(email)

(* function setCredentials(jiraEmail, jiraToken) *)
setCredentials(jiraEmail, jiraToken) ==
    /\ email' = jiraEmail
    /\ apiToken' = jiraToken
    /\ baseURL' = generateBaseURLFromEmail(jiraEmail)

AuthFailedMsg ==
    <<"Authentication failed. Please check your email and API token.">>
AccessDeniedMsg ==
    <<"Access denied. You may not have permission for this action.">>
NotFoundMsg ==
    <<"Resource not found. Please check the issue key or project key.">>
UnknownErrorMsg == <<"Unknown error occurred">>

(* Array.prototype.join *)
RECURSIVE join(_, _)
join(values, sep) ==
    IF Len(values) = 0 THEN <<>>
    ELSE IF Len(values) = 1 THEN values[1]
    ELSE values[1] \o sep \o join(Tail(values), sep)

(* error.response?.data, as an optional value *)
responseData(error) ==
    IF error.response = None THEN None ELSE The(error.response).data

(* A variant of formatJiraError that looks at the errors object before    *)
(* the errorMessages array.                                                *)
formatJiraError_ErrorsFirst(error) ==
    LET data == responseData(error)
        errorMessages == IF data = None THEN None ELSE The(data).errorMessages
        errors == IF data = None THEN None ELSE The(data).errors
        status == IF error.response = None
                  THEN None ELSE Some(The(error.response).status)
    IN  IF errors # None
        THEN join(The(errors), <<",", " ">>)
        ELSE IF /\ errorMessages # None
                /\ Len(The(errorMessages)) > 0
                /\ Truthy(The(errorMessages)[1])
        THEN The(errorMessages)[1]
        ELSE IF status = Some(401) THEN AuthFailedMsg
        ELSE IF status = Some(403) THEN AccessDeniedMsg
        ELSE IF status = Some(404) THEN NotFoundMsg
        ELSE IF error.message # None /\ Truthy(The(error.message))
        THEN The(error.message)
        ELSE UnknownErrorMsg

(* function formatJiraError(error): an error carries an optional response  *)
(* {status, data} and an optional message; the data of a response carries  *)
(* an optional errorMessages array and an optional errors object, kept as  *)
(* the sequence of its values in key order.                                *)
formatJiraError(error) ==
    LET data == responseData(error)
        errorMessages == IF data = None THEN None ELSE The(data).errorMessages
        errors == IF data = None THEN None ELSE The(data).errors
        status == IF error.response = None
                  THEN None ELSE Some(The(error.response).status)
    IN  IF /\ errorMessages # None
           /\ Len(The(errorMessages)) > 0
           /\ Truthy(The(errorMessages)[1])
        THEN The(errorMessages)[1]
        ELSE IF errors # None
        THEN join(The(errors), <<",", " ">>)
        ELSE IF status = Some(401) THEN AuthFailedMsg
        ELSE IF status = Some(403) THEN AccessDeniedMsg
        ELSE IF status = Some(404) THEN NotFoundMsg
        ELSE IF error.message # None /\ Truthy(The(error.message))
        THEN The(error.message)
        ELSE UnknownErrorMsg

(* function formatDescriptionForJira(description) trimming nothing. *)
formatDescriptionForJira_Untrimmed(description) ==
    IF ~Truthy(description)
    THEN None
    ELSE Some([type |-> "doc", version |-> 1,
               content |-> <<[type |-> "paragraph",
                              content |-> <<[type |-> "text",
                                             text |-> description]>>]>>])

(* function formatDescriptionForJira(description): null is None *)
formatDescriptionForJira(description) ==
    IF ~Truthy(description) \/ ~Truthy(trim(description))
    THEN None
    ELSE Some([type |-> "doc", version |-> 1,
               content |-> <<[type |-> "paragraph",
                              content |-> <<[type |-> "text",
                                             text |-> trim(description)]>>]>>])

(***************************************************************************)
(* Results and JSON bodies.                                                *)
(***************************************************************************)
Ok(d) == [success |-> TRUE, data |-> d]
Fail(e) == [success |-> FALSE, error |-> e]

Null == [kind |-> "null"]
Array(items) == [kind |-> "array", items |-> items]

(***************************************************************************)
(* API functions (lines 81-199).  A function that reads the globals takes  *)
(* them as s, the session at the time of the call.                         *)
(***************************************************************************)
DefaultMaxResults == 50

NoOptions == [method |-> None, body |-> None]

(* A variant of makeJiraRequest with the credentials in each other's place. *)
makeJiraRequest_SwappedAuth(s, path, options) ==
    LET method == IF options.method = None THEN "GET" ELSE The(options.method)
        withBody == options.body # None /\ method \in {"POST", "PUT"}
    IN  [url |-> s.baseURL \o <<"/rest/api/3">> \o path,
         method |-> method,
         auth |-> [username |-> s.apiToken, password |-> s.email],
         headers |-> [Accept |-> "application/json",
                      ContentType |-> IF withBody
                                      THEN Some("application/json") ELSE None],
         data |-> IF withBody THEN options.body ELSE None]

(* makeJiraRequest, lines 82-101: the config handed to axios *)
makeJiraRequest(s, path, options) ==
    LET method == IF options.method = None THEN "GET" ELSE The(options.method)
        withBody == options.body # None /\ method \in {"POST", "PUT"}
    IN  [url |-> s.baseURL \o <<"/rest/api/3">> \o path,
         method |-> method,
         auth |-> [username |-> s.email, password |-> s.apiToken],
         headers |-> [Accept |-> "application/json",
                      ContentType |-> IF withBody
                                      THEN Some("application/json") ELSE None],
         data |-> IF withBody THEN options.body ELSE None]

(* A variant of makeJiraRequestResult that returns the body of a DELETE    *)
(* too.                                                                    *)
makeJiraRequestResult_DeleteBody(method, outcome) ==
    IF outcome.ok
    THEN Ok(outcome.data)
    ELSE Fail(formatJiraError(outcome.error))

(* makeJiraRequest, lines 103-115: the Result for a settled transport call; *)
(* an outcome is [ok |-> TRUE, data] or [ok |-> FALSE, error]               *)
makeJiraRequestResult(method, outcome) ==
    IF outcome.ok
    THEN IF method = "DELETE" THEN Ok(Null) ELSE Ok(outcome.data)
    ELSE Fail(formatJiraError(outcome.error))

(* What a call of an API function does before its first await resolves:    *)
(* it has returned a Result, or it awaits the request it issued.           *)
Returned(r) == [apc |-> "returned", ret |-> Some(r), reqs |-> <<>>]
Awaiting(at, config) == [apc |-> at, ret |-> None, reqs |-> <<config>>]

(* async function getCurrentUser() *)
getCurrentUser(s) ==
    Awaiting("getCurrentUser", makeJiraRequest(s, <<"/myself">>, NoOptions))

(* async function getProjectsList() *)
getProjectsList(s) ==
    Awaiting("getProjectsList", makeJiraRequest(s, <<"/project">>, NoOptions))

(* async function getProject(projectKey) *)
getProject(s, projectKey) ==
    IF ~Truthy(projectKey) \/ ~Truthy(trim(projectKey))
    THEN Returned(Fail(<<"Project key is required">>))
    ELSE Awaiting("getProject",
                  makeJiraRequest(s, <<"/project/">> \o trim(projectKey),
                                  NoOptions))

(* async function getIssuesList(projectKey, maxResults = 50) *)
getIssuesList(s, projectKey, maxResults) ==
    IF ~Truthy(projectKey) \/ ~Truthy(trim(projectKey))
    THEN Returned(Fail(<<"Project key is required">>))
    ELSE LET jql == <<"project = ">> \o trim(projectKey)
                        \o <<" ORDER BY created ASC">>
         IN  Awaiting("getIssuesList",
                      makeJiraRequest(s, <<"/search?jql=">>
                                             \o encodeURIComponent(jql)
                                             \o <<"&maxResults=">>
                                             \o <<ToString(maxResults)>>,
                                      NoOptions))

(* async function getIssue(issueKey) *)
getIssue(s, issueKey) ==
    IF ~Truthy(issueKey) \/ ~Truthy(trim(issueKey))
    THEN Returned(Fail(<<"Issue key is required (e.g., BTS-1)">>))
    ELSE Awaiting("getIssue",
                  makeJiraRequest(s, <<"/issue/">> \o trim(issueKey), NoOptions))

(* createIssue, lines 157 and 173-187: the creation request.  issueType is *)
(* None where the caller passes no fourth argument, and the parameter     *)
(* then has its default (line 157).  A description that is not added to   *)
(* the fields is None.                                                     *)
createIssuePost(s, projectKey, summary, description, issueType) ==
    LET formattedDescription == formatDescriptionForJira(description)
        issueData ==
            [fields |-> [project |-> [key |-> projectKey],
                         summary |-> summary,
                         issuetype |-> [name |-> IF issueType = None
                                                 THEN <<"Task">>
                                                 ELSE The(issueType)],
                         description |-> formattedDescription]]
    IN  Awaiting("createIssue_post",
                 makeJiraRequest(s, <<"/issue">>,
                                 [method |-> Some("POST"),
                                  body |-> Some(issueData)]))

(* A variant of createIssueAfterCheck that goes on to the POST whatever    *)
(* the project check returned.                                             *)
createIssueAfterCheck_Unchecked(s, projectKey, summary, description, issueType, projectCheck) ==
    createIssuePost(s, projectKey, summary, description, issueType)

(* createIssue, lines 164-187: from the Result of the project check on *)
createIssueAfterCheck(s, projectKey, summary, description, issueType, projectCheck) ==
    IF ~projectCheck.success
    THEN Returned(Fail(<<"Project '">> \o projectKey
                       \o <<"' not found or you don't have access to it. ">>
                       \o projectCheck.error))
    ELSE createIssuePost(s, projectKey, summary, description, issueType)

(* A variant of createIssue that issues its POST without awaiting the      *)
(* project check.                                                          *)
createIssue_NotAwaited(s, projectKey, summary, description, issueType) ==
    IF ~Truthy(projectKey) \/ ~Truthy(summary)
    THEN Returned(Fail(<<"Project key and summary are required">>))
    ELSE LET check == getProject(s, projectKey)
             post == createIssuePost(s, projectKey, summary, description,
                                     issueType)
         IN  [post EXCEPT !.reqs = check.reqs \o post.reqs]

(* async function createIssue(projectKey, summary, description, issueType), *)
(* up to its first await that does not resolve at once                      *)
createIssue(s, projectKey, summary, description, issueType) ==
    IF ~Truthy(projectKey) \/ ~Truthy(summary)
    THEN Returned(Fail(<<"Project key and summary are required">>))
    ELSE LET check == getProject(s, projectKey)
         IN  IF check.apc = "returned"
             THEN createIssueAfterCheck(s, projectKey, summary, description,
                                        issueType, The(check.ret))
             ELSE [check EXCEPT !.apc = "createIssue_getProject"]

(* async function deleteIssue(issueKey) *)
deleteIssue(s, issueKey) ==
    IF ~Truthy(issueKey)
    THEN Returned(Fail(<<"Issue key is required (e.g., BTS-1)">>))
    ELSE Awaiting("deleteIssue",
                  makeJiraRequest(s, <<"/issue/">> \o issueKey,
                                  [method |-> Some("DELETE"), body |-> None]))

(***************************************************************************)
(* The environment: what the user types, what process.env and the .env     *)
(* file hold, and how the transport settles a request.                     *)
(***************************************************************************)
MaxProjects == 2
MaxIssues == 2
MaxChoiceLen == 2
MaxConfirmLen == 3

(* Answers to a menu prompt, which is trimmed and compared *)
MenuInputs == {<<>>, <<"1">>, <<"2">>, <<"3">>, <<"4">>, <<"5">>, <<"x">>,
               <<" ", "1", " ">>, <<"2", " ">>, <<"1", "x">>, <<"1", "2">>}
(* Answers to a numbered selection and to the confirmation of a deletion *)
ChoiceInputs == Strings({"0", "1", "2", "3", "x", " "}, MaxChoiceLen)
ConfirmInputs ==
    Strings({"y", "Y", "e", "s", " "}, MaxConfirmLen)
TypedEmails == {<<>>, <<" ">>, <<"a">>, <<"a", "@", "b">>,
                <<" ", "a", "@", "b", " ">>}
TypedTokens == {<<>>, <<" ">>, <<"t">>, <<"t", " ">>}
TypedSummaries == {<<>>, <<" ">>, <<"s">>, <<" ", "s">>}
TypedDescriptions == {<<>>, <<" ">>, <<"d">>, <<"d", " ">>}

EnvEmails == {<<"e", "@", "x">>}
EnvTokens == {<<>>, <<"k">>}
Optional(S) == {None} \cup {Some(v) : v \in S}
Envs == [JIRA_EMAIL : Optional(EnvEmails), JIRA_API_TOKEN : Optional(EnvTokens)]

ProjectSet == {[key |-> <<"P">>, name |-> <<"p">>],
               [key |-> <<"Q">>, name |-> <<"q">>]}
ProjectLists == UNION {[1..k -> ProjectSet] : k \in 0..MaxProjects}
IssueSet == {[key |-> <<"P", "-", "1">>, fields |-> [summary |-> <<"one">>]],
             [key |-> <<"P", "-", "2">>, fields |-> [summary |-> <<"two">>]]}
IssueLists == UNION {[1..k -> IssueSet] : k \in 0..MaxIssues}

(* Every shape of error formatJiraError tells apart. *)
ErrorMessageArrays == {<<>>, <<<<>>>>, <<<<"A">>>>, <<<<"A">>, <<"A2">>>>,
                       <<<<>>, <<"A2">>>>}
ErrorObjects == {<<>>, <<<<"B">>>>, <<<<"B">>, <<"C">>>>}
ErrorBodies == [errorMessages : Optional(ErrorMessageArrays),
                errors : Optional(ErrorObjects)]
ErrorResponses == [status : {400, 401, 403, 404, 500},
                   data : Optional(ErrorBodies)]
AllErrors == [response : Optional(ErrorResponses),
              message : Optional({<<>>, <<"Network Error">>})]

(* The errors the transport raises in the workflow: one per rule of        *)
(* formatJiraError.                                                        *)
TransportErrors ==
    {[response |-> Some([status |-> 404,
                         data |-> Some([errorMessages |-> Some(<<<<"A">>>>),
                                        errors |-> Some(<<>>)])]),
      message |-> Some(<<"Network Error">>)],
     [response |-> Some([status |-> 400,
                         data |-> Some([errorMessages |-> Some(<<>>),
                                        errors |-> Some(<<<<"B">>, <<"C">>>>)])]),
      message |-> Some(<<"Network Error">>)],
     [response |-> Some([status |-> 401, data |-> None]),
      message |-> Some(<<"Network Error">>)],
     [response |-> Some([status |-> 403, data |-> None]),
      message |-> Some(<<"Network Error">>)],
     [response |-> Some([status |-> 404, data |-> None]),
      message |-> Some(<<"Network Error">>)],
     [response |-> None, message |-> Some(<<"Network Error">>)],
     [response |-> None, message |-> None]}

(* The path of a request: what follows the API root in its url. *)
PathOf(config) ==
    LET i == CHOOSE k \in 1..Len(config.url) : config.url[k] = "/rest/api/3"
    IN  SubSeq(config.url, i + 1, Len(config.url))

(* The bodies the remote API answers a request with on success: the        *)
(* documented shape of the resource, or null where the source's handling   *)
(* of a body without the shape is of interest.                             *)
SuccessBodies(config) ==
    LET resource == Head(PathOf(config))
    IN  CASE resource = "/myself" ->
                 {[kind |-> "object", accountId |-> <<"u">>]}
          [] resource = "/project" -> {Array(l) : l \in ProjectLists} \cup {Null}
          [] resource = "/project/" -> {[kind |-> "object", key |-> <<"P">>]}
          [] resource = "/search?jql=" ->
                 {[kind |-> "object", issues |-> l] : l \in IssueLists}
                     \cup {Null}
          [] resource = "/issue/" ->
                 IF config.method = "DELETE"
                 THEN {Null, [kind |-> "object", key |-> <<"P", "-", "1">>]}
                 ELSE {[kind |-> "object", key |-> <<"P", "-", "1">>,
                        fields |-> [summary |-> <<"one">>]]}
          [] resource = "/issue" ->
                 {[kind |-> "object", key |-> <<"P", "-", "9">>]}
          [] OTHER -> {Null, [kind |-> "object", key |-> <<"P">>]}

(* How axios(config) can settle. *)
Outcomes(config) ==
    {[ok |-> TRUE, data |-> b] : b \in SuccessBodies(config)}
        \cup {[ok |-> FALSE, error |-> e] : e \in TransportErrors}

(***************************************************************************)
(* Initial state: main has created the readline interface and setupMenu    *)
(* waits at its first prompt.                                              *)
(***************************************************************************)
LocInit == [via |-> "none", flow |-> "none", jiraEmail |-> <<>>,
            projects |-> <<>>, selectedProject |-> None,
            issues |-> <<>>, selectedIssue |-> None, summary |-> <<>>]

Init ==
    /\ email = <<>>
    /\ apiToken = <<>>
    /\ baseURL = <<>>
    /\ env \in Envs
    /\ rl = "open"
    /\ pc = "setupMenu"
    /\ loc = LocInit
    /\ apc = "idle"
    /\ apiArgs = <<>>
    /\ inflight = <<>>
    /\ ret = None
    /\ isValid = None
    /\ calls = <<>>
    /\ ops = <<>>
    /\ settled = None
    /\ oks = <<>>
    /\ typed = None
    /\ out = <<>>

(***************************************************************************)
(* Calling an API function from a caller.  fresh is TRUE in the step that  *)
(* handles a menu choice, where the records of the previous choice end.    *)
(* pre holds the records of the calls the step made before this one.       *)
(***************************************************************************)
InvokeAfter(pre, e, name, args, fresh) ==
    /\ apc' = e.apc
    /\ ret' = e.ret
    /\ apiArgs' = args
    /\ inflight' = inflight \o e.reqs
    /\ calls' = (IF fresh THEN <<>> ELSE calls) \o e.reqs
    /\ ops' = (IF fresh THEN <<>> ELSE ops) \o pre
                   \o <<[op |-> name, args |-> args]>>
    /\ settled' = None
    /\ oks' = IF fresh THEN <<>> ELSE oks

Invoke(e, name, args, fresh) == InvokeAfter(<<>>, e, name, args, fresh)

(* The caller goes on without calling an API function. *)
NoCallAfter(pre, fresh) ==
    /\ apc' = "idle"
    /\ ret' = None
    /\ apiArgs' = <<>>
    /\ inflight' = inflight
    /\ calls' = IF fresh THEN <<>> ELSE calls
    /\ ops' = (IF fresh THEN <<>> ELSE ops) \o pre
    /\ settled' = None
    /\ oks' = IF fresh THEN <<>> ELSE oks

NoCall(fresh) == NoCallAfter(<<>>, fresh)

Console(msgs, fresh) == out' = (IF fresh THEN <<>> ELSE out) \o msgs

(***************************************************************************)
(* The request layer's steps.                                              *)
(***************************************************************************)
(* makeJiraRequest, lines 103-115, and the return of the API function that *)
(* awaits it: axios settles the oldest request in flight.                  *)
MakeJiraRequest_settle ==
    /\ Len(inflight) > 0
    /\ apc \notin {"idle", "returned", "createIssue_getProject"}
    /\ \E o \in Outcomes(Head(inflight)) :
           /\ ret' = Some(makeJiraRequestResult(Head(inflight).method, o))
           /\ settled' = Some(o)
           /\ oks' = Append(oks, o.ok)
    /\ apc' = "returned"
    /\ inflight' = Tail(inflight)
    /\ typed' = None
    /\ UNCHANGED <<email, apiToken, baseURL, env, rl, pc, loc, apiArgs,
                   isValid, calls, ops, out>>

(* createIssue, lines 163-187: the project check settles *)
CreateIssue_projectChecked ==
    /\ Len(inflight) > 0
    /\ apc = "createIssue_getProject"
    /\ \E o \in Outcomes(Head(inflight)) :
           LET projectCheck == makeJiraRequestResult(Head(inflight).method, o)
               e == createIssueAfterCheck(Session, apiArgs[1], apiArgs[2],
                                          apiArgs[3], apiArgs[4], projectCheck)
           IN  /\ apc' = e.apc
               /\ ret' = e.ret
               /\ inflight' = Tail(inflight) \o e.reqs
               /\ calls' = calls \o e.reqs
               /\ settled' = Some(o)
               /\ oks' = Append(oks, o.ok)
    /\ typed' = None
    /\ UNCHANGED <<email, apiToken, baseURL, env, rl, pc, loc, apiArgs,
                   isValid, ops, out>>

(***************************************************************************)
(* Credentials setup (lines 210-241, 294-385).                             *)
(***************************************************************************)
(* A variant of AfterCheckCredentials where setupMenu returns whatever the *)
(* value of checkCredentials.                                              *)
AfterCheckCredentials_Always(via, valid, s) ==
    IF via = "harness" THEN "harness" ELSE "mainMenu"

(* Where the caller of checkCredentials goes on with its value: setupMenu  *)
(* returns to main, which enters mainMenu, or loops to its prompt.         *)
AfterCheckCredentials(via, valid, s) ==
    IF via = "harness" THEN "harness"
    ELSE IF via = "env" THEN (IF valid THEN "mainMenu" ELSE "setupMenu")
    ELSE IF valid /\ Truthy(s.email) /\ Truthy(s.apiToken)
         THEN "mainMenu" ELSE "setupMenu"

(* A variant of CheckCredentials_start without the test of line 357. *)
CheckCredentials_start_NoGuard(s, via, fresh, pre) ==
    /\ isValid' = None
    /\ InvokeAfter(pre, getCurrentUser(s), "getCurrentUser", <<>>, fresh)
    /\ Console(<<>>, fresh)
    /\ pc' = "checkCredentials_user"
    /\ loc' = [LocInit EXCEPT !.via = via]

(* checkCredentials, lines 357-363: called with the session s, after the   *)
(* calls pre of the same step                                              *)
CheckCredentials_start(s, via, fresh, pre) ==
    IF ~Truthy(s.email) \/ ~Truthy(s.apiToken)
    THEN /\ isValid' = Some(FALSE)
         /\ NoCallAfter(pre, fresh)
         /\ Console(<<"Please setup credentials first">>, fresh)
         /\ pc' = AfterCheckCredentials(via, FALSE, s)
         /\ loc' = LocInit
    ELSE /\ isValid' = None
         /\ InvokeAfter(pre, getCurrentUser(s), "getCurrentUser", <<>>, fresh)
         /\ Console(<<>>, fresh)
         /\ pc' = "checkCredentials_user"
         /\ loc' = [LocInit EXCEPT !.via = via]

(* The record in ops of a call of setCredentials. *)
SetCredentialsCall(jiraEmail, jiraToken) ==
    <<[op |-> "setCredentials", args |-> <<jiraEmail, jiraToken>>]>>

(* dotenv.config(): a variable process.env lacks is taken from the .env    *)
(* file when the file holds it; one it has is kept.                        *)
DotenvConfig(e) ==
    {f \in Envs : /\ e.JIRA_EMAIL # None => f.JIRA_EMAIL = e.JIRA_EMAIL
                  /\ e.JIRA_API_TOKEN # None
                         => f.JIRA_API_TOKEN = e.JIRA_API_TOKEN}

(* setupMenu, lines 220-239, with useEnvCredentials, lines 296-307 and     *)
(* 319-324: the answer to the setup prompt                                 *)
SetupMenu_choice ==
    /\ pc = "setupMenu"
    /\ rl' = rl
    /\ \E choice \in MenuInputs :
         /\ typed' = Some(choice)
         /\ IF trim(choice) = <<"1">>
            THEN \E f \in DotenvConfig(env) :
                   /\ env' = f
                   /\ IF /\ f.JIRA_EMAIL # None /\ Truthy(The(f.JIRA_EMAIL))
                         /\ f.JIRA_API_TOKEN # None /\ Truthy(The(f.JIRA_API_TOKEN))
                      THEN /\ setCredentials(The(f.JIRA_EMAIL), The(f.JIRA_API_TOKEN))
                           /\ CheckCredentials_start(
                                  Session', "env", TRUE,
                                  SetCredentialsCall(The(f.JIRA_EMAIL),
                                                     The(f.JIRA_API_TOKEN)))
                      ELSE /\ UNCHANGED <<email, apiToken, baseURL, isValid>>
                           /\ NoCall(TRUE)
                           /\ Console(<<"No credentials found in .env file.">>, TRUE)
                           /\ pc' = "setupMenu"
                           /\ loc' = LocInit
            ELSE IF trim(choice) = <<"2">>
            THEN /\ UNCHANGED <<email, apiToken, baseURL, env, isValid>>
                 /\ NoCall(TRUE)
                 /\ Console(<<"Manual Credentials Setup">>, TRUE)
                 /\ pc' = "enterCredentialsManually_email"
                 /\ loc' = LocInit
            ELSE /\ UNCHANGED <<email, apiToken, baseURL, env, isValid>>
                 /\ NoCall(TRUE)
                 /\ Console(<<"Invalid choice. Please enter 1 or 2.">>, TRUE)
                 /\ pc' = "setupMenu"
                 /\ loc' = LocInit

(* enterCredentialsManually, line 334: the answer to the email prompt *)
EnterCredentialsManually_email ==
    /\ pc = "enterCredentialsManually_email"
    /\ \E jiraEmail \in TypedEmails :
           loc' = [loc EXCEPT !.jiraEmail = jiraEmail]
    /\ pc' = "enterCredentialsManually_token"
    /\ UNCHANGED <<email, apiToken, baseURL, env, rl, apc, apiArgs, inflight,
                   ret, isValid, calls, ops, settled, oks, out>>
    /\ typed' = None

(* A variant of EnterCredentialsManually_token that tests the answers as   *)
(* they were typed.                                                        *)
EnterCredentialsManually_token_Untrimmed ==
    /\ pc = "enterCredentialsManually_token"
    /\ UNCHANGED <<env, rl>>
    /\ \E jiraToken \in TypedTokens :
         /\ typed' = Some(jiraToken)
         /\ IF ~Truthy(loc.jiraEmail) \/ ~Truthy(jiraToken)
            THEN /\ UNCHANGED <<email, apiToken, baseURL, isValid>>
                 /\ NoCall(FALSE)
                 /\ Console(<<"Email and API token are required">>, FALSE)
                 /\ pc' = "setupMenu"
                 /\ loc' = LocInit
            ELSE /\ setCredentials(trim(loc.jiraEmail), trim(jiraToken))
                 /\ CheckCredentials_start(
                        Session', "manual", FALSE,
                        SetCredentialsCall(trim(loc.jiraEmail), trim(jiraToken)))

(* enterCredentialsManually, lines 335-346: the answer to the token prompt *)
EnterCredentialsManually_token ==
    /\ pc = "enterCredentialsManually_token"
    /\ UNCHANGED <<env, rl>>
    /\ \E jiraToken \in TypedTokens :
         /\ typed' = Some(jiraToken)
         /\ IF ~Truthy(trim(loc.jiraEmail)) \/ ~Truthy(trim(jiraToken))
            THEN /\ UNCHANGED <<email, apiToken, baseURL, isValid>>
                 /\ NoCall(FALSE)
                 /\ Console(<<"Email and API token are required">>, FALSE)
                 /\ pc' = "setupMenu"
                 /\ loc' = LocInit
            ELSE /\ setCredentials(trim(loc.jiraEmail), trim(jiraToken))
                 /\ CheckCredentials_start(
                        Session', "manual", FALSE,
                        SetCredentialsCall(trim(loc.jiraEmail), trim(jiraToken)))

(* checkCredentials, lines 363-371: getCurrentUser has resolved *)
CheckCredentials_user ==
    /\ pc = "checkCredentials_user"
    /\ apc = "returned"
    /\ UNCHANGED <<email, apiToken, baseURL, env, rl>>
    /\ typed' = None
    /\ IF ~The(ret).success
       THEN /\ isValid' = Some(FALSE)
            /\ NoCall(FALSE)
            /\ Console(<<"Credentials test failed:">>, FALSE)
            /\ pc' = AfterCheckCredentials(loc.via, FALSE, Session)
            /\ loc' = LocInit
       ELSE /\ isValid' = None
            /\ Invoke(getProjectsList(Session), "getProjectsList", <<>>, FALSE)
            /\ Console(<<>>, FALSE)
            /\ pc' = "checkCredentials_projects"
            /\ loc' = loc

(* A variant of checkCredentialsProjects without the test of line 378. *)
checkCredentialsProjects_NoEmptyTest(projectsResult) ==
    IF ~projectsResult.success
    THEN [isValid |-> Some(FALSE), log |-> <<"Error accessing projects:">>]
    ELSE IF projectsResult.data.kind # "array"
    THEN [isValid |-> None, log |-> <<"TypeError">>]
    ELSE [isValid |-> Some(TRUE), log |-> <<>>]

(* checkCredentials, lines 372-384: its value for the result of             *)
(* getProjectsList, None where it throws, and what it logs                  *)
checkCredentialsProjects(projectsResult) ==
    IF ~projectsResult.success
    THEN [isValid |-> Some(FALSE), log |-> <<"Error accessing projects:">>]
    ELSE IF projectsResult.data.kind # "array"
    THEN [isValid |-> None, log |-> <<"TypeError">>]
    ELSE IF Len(projectsResult.data.items) = 0
    THEN [isValid |-> Some(FALSE),
          log |-> <<"User exists but no projects found.">>]
    ELSE [isValid |-> Some(TRUE), log |-> <<>>]

(* setupMenu, lines 226 and 233: what it logs when it returns *)
SetupDone(next) ==
    IF next = "mainMenu" THEN <<"Credentials configured successfully!">>
    ELSE <<>>

(* A variant of CheckCredentials_projects for a main without its finally   *)
(* block: the TypeError leaves main with the interface open.               *)
CheckCredentials_projects_NoFinally ==
    /\ pc = "checkCredentials_projects"
    /\ apc = "returned"
    /\ UNCHANGED <<email, apiToken, baseURL, env, rl>>
    /\ typed' = None
    /\ NoCall(FALSE)
    /\ loc' = LocInit
    /\ LET r == checkCredentialsProjects(The(ret))
       IN  /\ isValid' = r.isValid
           /\ IF r.isValid = None
              THEN /\ pc' = IF loc.via = "harness" THEN "harness" ELSE "crashed"
                   /\ Console(r.log, FALSE)
              ELSE /\ pc' = AfterCheckCredentials(loc.via, The(r.isValid),
                                                  Session)
                   /\ Console(r.log \o SetupDone(pc'), FALSE)

(* checkCredentials, lines 371-384, and its caller's return: getProjectsList *)
(* has resolved.  The length of a null body is a TypeError, which no caller  *)
(* up to main catches: main's finally closes the readline interface.         *)
CheckCredentials_projects ==
    /\ pc = "checkCredentials_projects"
    /\ apc = "returned"
    /\ UNCHANGED <<email, apiToken, baseURL, env>>
    /\ typed' = None
    /\ NoCall(FALSE)
    /\ loc' = LocInit
    /\ LET r == checkCredentialsProjects(The(ret))
       IN  /\ isValid' = r.isValid
           /\ IF r.isValid = None
              THEN /\ pc' = IF loc.via = "harness" THEN "harness" ELSE "crashed"
                   /\ rl' = IF loc.via = "harness" THEN rl ELSE "closed"
                   /\ Console(r.log, FALSE)
              ELSE /\ pc' = AfterCheckCredentials(loc.via, The(r.isValid),
                                                  Session)
                   /\ rl' = rl
                   /\ Console(r.log \o SetupDone(pc'), FALSE)

(***************************************************************************)
(* Main menu and its flows (lines 256-286, 393-587).                       *)
(***************************************************************************)
(* A variant of chosenIndex that takes the number typed for the index. *)
chosenIndex_FromZero(choice, n) ==
    LET parsed == parseInt(choice)
    IN  IF parsed = None THEN None
        ELSE IF The(parsed) < 0 \/ The(parsed) >= n THEN None
        ELSE Some(The(parsed))

(* The 0-based index a numbered choice selects in a list of n items, or    *)
(* None for the invalid choice (lines 420-422 and 486-488).                *)
chosenIndex(choice, n) ==
    LET parsed == parseInt(choice)
    IN  IF parsed = None THEN None
        ELSE IF The(parsed) - 1 < 0 \/ The(parsed) - 1 >= n THEN None
        ELSE Some(The(parsed) - 1)

(* A variant of confirmed that compares the letters' case too. *)
confirmed_CaseSensitive(confirmation) == confirmation = <<"y", "e", "s">>

(* deleteSelectedIssue, line 568: the confirmation is accepted *)
confirmed(confirmation) == toLowerCase(confirmation) = <<"y", "e", "s">>

(* mainMenu, lines 267-284, with selectProject, lines 397-398, and main,   *)
(* lines 611-613: the answer to the main prompt                            *)
MainMenu_choice ==
    /\ pc = "mainMenu"
    /\ UNCHANGED <<email, apiToken, baseURL, env, isValid>>
    /\ typed' = None
    /\ \E choice \in MenuInputs :
         LET c == trim(choice)
         IN  IF c \in {<<"1">>, <<"2">>, <<"3">>}
             THEN /\ Invoke(getProjectsList(Session), "getProjectsList", <<>>,
                            TRUE)
                  /\ Console(<<"Fetching available projects...">>, TRUE)
                  /\ pc' = "selectProject_fetch"
                  /\ loc' = [LocInit EXCEPT !.flow =
                                 IF c = <<"1">> THEN "get"
                                 ELSE IF c = <<"2">> THEN "create" ELSE "delete"]
                  /\ rl' = rl
             ELSE IF c = <<"4">>
             THEN /\ NoCall(TRUE)
                  /\ Console(<<"Goodbye!">>, TRUE)
                  /\ pc' = "exited"
                  /\ loc' = LocInit
                  /\ rl' = "closed"
             ELSE /\ NoCall(TRUE)
                  /\ Console(<<"Invalid choice. Please enter 1, 2, 3, or 4.">>,
                             TRUE)
                  /\ pc' = "mainMenu"
                  /\ loc' = LocInit
                  /\ rl' = rl

(* selectProject, lines 398-417: getProjectsList has resolved.  A body     *)
(* that is no array raises a TypeError, caught at line 430.                *)
SelectProject_fetched ==
    /\ pc = "selectProject_fetch"
    /\ apc = "returned"
    /\ UNCHANGED <<email, apiToken, baseURL, env, rl, isValid>>
    /\ typed' = None
    /\ NoCall(FALSE)
    /\ LET projectsResult == The(ret)
       IN  IF ~projectsResult.success
           THEN /\ Console(<<"Error:">>, FALSE)
                /\ pc' = "mainMenu"
                /\ loc' = LocInit
           ELSE IF projectsResult.data.kind # "array"
           THEN /\ Console(<<"Error:", "TypeError">>, FALSE)
                /\ pc' = "mainMenu"
                /\ loc' = LocInit
           ELSE IF Len(projectsResult.data.items) = 0
           THEN /\ Console(<<"No projects found">>, FALSE)
                /\ pc' = "mainMenu"
                /\ loc' = LocInit
           ELSE /\ Console(<<"Available Projects:">>, FALSE)
                /\ pc' = "selectProject_choice"
                /\ loc' = [loc EXCEPT !.projects = projectsResult.data.items]

(* selectProject, lines 419-429, and its caller: createNewIssue, lines     *)
(* 526-529, or selectIssueFromProject, lines 441-445                       *)
SelectProject_choice ==
    /\ pc = "selectProject_choice"
    /\ UNCHANGED <<email, apiToken, baseURL, env, rl, isValid>>
    /\ \E projectChoice \in ChoiceInputs :
         /\ typed' = Some(projectChoice)
         /\ LET projectIndex == chosenIndex(projectChoice, Len(loc.projects))
                selectedProject == loc.projects[The(projectIndex) + 1]
            IN  IF projectIndex = None
                THEN /\ NoCall(FALSE)
                     /\ Console(<<"Invalid project choice.">>, FALSE)
                     /\ pc' = "mainMenu"
                     /\ loc' = LocInit
                ELSE IF loc.flow = "create"
                THEN /\ NoCall(FALSE)
                     /\ Console(<<"Selected project:">>, FALSE)
                     /\ pc' = "createNewIssue_summary"
                     /\ loc' = [loc EXCEPT !.projects = <<>>,
                                           !.selectedProject = Some(selectedProject)]
                ELSE /\ Invoke(getIssuesList(Session, selectedProject.key,
                                             DefaultMaxResults),
                               "getIssuesList", <<selectedProject.key>>, FALSE)
                     /\ Console(<<"Selected project:">>, FALSE)
                     /\ pc' = "selectIssueFromProject_fetch"
                     /\ loc' = [loc EXCEPT !.projects = <<>>,
                                           !.selectedProject = Some(selectedProject)]

(* selectIssueFromProject, lines 445-453, with selectIssueFromList, lines  *)
(* 473-483: getIssuesList has resolved.  A body without issues raises a    *)
(* TypeError, caught at line 455.                                          *)
SelectIssueFromProject_fetched ==
    /\ pc = "selectIssueFromProject_fetch"
    /\ apc = "returned"
    /\ UNCHANGED <<email, apiToken, baseURL, env, rl, isValid>>
    /\ typed' = None
    /\ NoCall(FALSE)
    /\ LET issuesResult == The(ret)
       IN  IF ~issuesResult.success
           THEN /\ Console(<<"Error:">>, FALSE)
                /\ pc' = "mainMenu"
                /\ loc' = LocInit
           ELSE IF issuesResult.data.kind # "object"
           THEN /\ Console(<<"Error:", "TypeError">>, FALSE)
                /\ pc' = "mainMenu"
                /\ loc' = LocInit
           ELSE IF Len(issuesResult.data.issues) = 0
           THEN /\ Console(<<"No issues found in project">>, FALSE)
                /\ pc' = "mainMenu"
                /\ loc' = LocInit
           ELSE /\ Console(<<"Found issue(s) in project">>, FALSE)
                /\ pc' = "selectIssueFromList_choice"
                /\ loc' = [loc EXCEPT !.issues = issuesResult.data.issues]

(* selectIssueFromList, lines 485-493, and its caller: selectAndDisplayIssue *)
(* with displayIssue, lines 464-500, or deleteSelectedIssue, lines 558-566   *)
SelectIssueFromList_choice ==
    /\ pc = "selectIssueFromList_choice"
    /\ UNCHANGED <<email, apiToken, baseURL, env, rl, isValid>>
    /\ \E issueChoice \in ChoiceInputs :
         /\ typed' = Some(issueChoice)
         /\ LET issueIndex == chosenIndex(issueChoice, Len(loc.issues))
                selectedIssue == loc.issues[The(issueIndex) + 1]
            IN  IF issueIndex = None
                THEN /\ NoCall(FALSE)
                     /\ Console(<<"Invalid issue choice.">>, FALSE)
                     /\ pc' = "mainMenu"
                     /\ loc' = LocInit
                ELSE IF loc.flow = "get"
                THEN /\ Invoke(getIssue(Session, selectedIssue.key), "getIssue",
                               <<selectedIssue.key>>, FALSE)
                     /\ Console(<<"Fetching issue">>, FALSE)
                     /\ pc' = "displayIssue"
                     /\ loc' = [loc EXCEPT !.issues = <<>>,
                                           !.selectedIssue = Some(selectedIssue)]
                ELSE /\ NoCall(FALSE)
                     /\ Console(<<"WARNING: You are about to delete issue">>, FALSE)
                     /\ pc' = "deleteSelectedIssue_confirmation"
                     /\ loc' = [loc EXCEPT !.issues = <<>>,
                                           !.selectedIssue = Some(selectedIssue)]

(* A variant of DisplayIssue_fetched where the error of getIssue sends the *)
(* user back to the credentials setup.                                     *)
DisplayIssue_fetched_ToSetup ==
    /\ pc = "displayIssue"
    /\ apc = "returned"
    /\ UNCHANGED <<email, apiToken, baseURL, env, rl, isValid>>
    /\ typed' = None
    /\ NoCall(FALSE)
    /\ Console(IF The(ret).success THEN <<"Issue Found:">> ELSE <<"Error:">>,
               FALSE)
    /\ pc' = IF The(ret).success THEN "mainMenu" ELSE "setupMenu"
    /\ loc' = LocInit

(* A variant of DisplayIssue_fetched where the error of getIssue ends the  *)
(* workflow.                                                               *)
DisplayIssue_fetched_Fatal ==
    /\ pc = "displayIssue"
    /\ apc = "returned"
    /\ UNCHANGED <<email, apiToken, baseURL, env, rl, isValid>>
    /\ typed' = None
    /\ NoCall(FALSE)
    /\ Console(IF The(ret).success THEN <<"Issue Found:">> ELSE <<"Error:">>,
               FALSE)
    /\ pc' = IF The(ret).success THEN "mainMenu" ELSE "exited"
    /\ loc' = LocInit

(* displayIssue, lines 500-513: getIssue has resolved *)
DisplayIssue_fetched ==
    /\ pc = "displayIssue"
    /\ apc = "returned"
    /\ UNCHANGED <<email, apiToken, baseURL, env, rl, isValid>>
    /\ typed' = None
    /\ NoCall(FALSE)
    /\ Console(IF The(ret).success THEN <<"Issue Found:">> ELSE <<"Error:">>,
               FALSE)
    /\ pc' = "mainMenu"
    /\ loc' = LocInit

(* createNewIssue, line 529: the answer to the summary prompt *)
CreateNewIssue_summary ==
    /\ pc = "createNewIssue_summary"
    /\ \E summary \in TypedSummaries : loc' = [loc EXCEPT !.summary = summary]
    /\ pc' = "createNewIssue_description"
    /\ UNCHANGED <<email, apiToken, baseURL, env, rl, apc, apiArgs, inflight,
                   ret, isValid, calls, ops, settled, oks, out>>
    /\ typed' = None

(* A variant of CreateNewIssue_description that tests the summary as it    *)
(* was typed.                                                              *)
CreateNewIssue_description_Untrimmed ==
    /\ pc = "createNewIssue_description"
    /\ UNCHANGED <<email, apiToken, baseURL, env, rl, isValid>>
    /\ typed' = None
    /\ \E description \in TypedDescriptions :
         IF ~Truthy(loc.summary)
         THEN /\ NoCall(FALSE)
              /\ Console(<<"Summary is required">>, FALSE)
              /\ pc' = "mainMenu"
              /\ loc' = LocInit
         ELSE LET args == <<The(loc.selectedProject).key, trim(loc.summary),
                            trim(description), None>>
              IN  /\ Invoke(createIssue(Session, args[1], args[2], args[3],
                                        args[4]),
                            "createIssue", args, FALSE)
                  /\ Console(<<"Creating issue...">>, FALSE)
                  /\ pc' = "createNewIssue_create"
                  /\ loc' = loc

(* createNewIssue, lines 530-538: the answer to the description prompt *)
CreateNewIssue_description ==
    /\ pc = "createNewIssue_description"
    /\ UNCHANGED <<email, apiToken, baseURL, env, rl, isValid>>
    /\ typed' = None
    /\ \E description \in TypedDescriptions :
         IF ~Truthy(trim(loc.summary))
         THEN /\ NoCall(FALSE)
              /\ Console(<<"Summary is required">>, FALSE)
              /\ pc' = "mainMenu"
              /\ loc' = LocInit
         ELSE LET args == <<The(loc.selectedProject).key, trim(loc.summary),
                            trim(description), None>>
              IN  /\ Invoke(createIssue(Session, args[1], args[2], args[3],
                                        args[4]),
                            "createIssue", args, FALSE)
                  /\ Console(<<"Creating issue...">>, FALSE)
                  /\ pc' = "createNewIssue_create"
                  /\ loc' = loc

(* A variant of CreateNewIssue_created that calls createIssue again when   *)
(* it has returned an error result.                                        *)
CreateNewIssue_created_Retry ==
    /\ pc = "createNewIssue_create"
    /\ apc = "returned"
    /\ UNCHANGED <<email, apiToken, baseURL, env, rl, isValid>>
    /\ typed' = None
    /\ IF The(ret).success
       THEN /\ NoCall(FALSE)
            /\ Console(<<"Issue created successfully!">>, FALSE)
            /\ pc' = "mainMenu"
            /\ loc' = LocInit
       ELSE /\ Invoke(createIssue(Session, apiArgs[1], apiArgs[2], apiArgs[3],
                                 apiArgs[4]),
                      "createIssue", apiArgs, FALSE)
            /\ Console(<<"Error:">>, FALSE)
            /\ pc' = pc
            /\ loc' = loc

(* createNewIssue, lines 538-547: createIssue has resolved *)
CreateNewIssue_created ==
    /\ pc = "createNewIssue_create"
    /\ apc = "returned"
    /\ UNCHANGED <<email, apiToken, baseURL, env, rl, isValid>>
    /\ typed' = None
    /\ NoCall(FALSE)
    /\ Console(IF The(ret).success
               THEN <<"Issue created successfully!">> ELSE <<"Error:">>, FALSE)
    /\ pc' = "mainMenu"
    /\ loc' = LocInit

(* deleteSelectedIssue, lines 566-575: the answer to the confirmation *)
DeleteSelectedIssue_confirmation ==
    /\ pc = "deleteSelectedIssue_confirmation"
    /\ UNCHANGED <<email, apiToken, baseURL, env, rl, isValid>>
    /\ \E confirmation \in ConfirmInputs :
         /\ typed' = Some(confirmation)
         /\ IF ~confirmed(confirmation)
            THEN /\ NoCall(FALSE)
                 /\ Console(<<"Deletion cancelled.">>, FALSE)
                 /\ pc' = "mainMenu"
                 /\ loc' = LocInit
            ELSE /\ Invoke(deleteIssue(Session, The(loc.selectedIssue).key),
                           "deleteIssue", <<The(loc.selectedIssue).key>>, FALSE)
                 /\ Console(<<"Deleting issue">>, FALSE)
                 /\ pc' = "deleteSelectedIssue_delete"
                 /\ loc' = loc

(* deleteSelectedIssue, lines 575-583: deleteIssue has resolved *)
DeleteSelectedIssue_deleted ==
    /\ pc = "deleteSelectedIssue_delete"
    /\ apc = "returned"
    /\ UNCHANGED <<email, apiToken, baseURL, env, rl, isValid>>
    /\ typed' = None
    /\ NoCall(FALSE)
    /\ Console(IF The(ret).success
               THEN <<"Issue deleted successfully!">> ELSE <<"Error:">>, FALSE)
    /\ pc' = "mainMenu"
    /\ loc' = LocInit

(***************************************************************************)
(* The workflow: main (lines 595-618).                                     *)
(***************************************************************************)
Next ==
    \/ SetupMenu_choice
    \/ EnterCredentialsManually_email
    \/ EnterCredentialsManually_token
    \/ CheckCredentials_user
    \/ CheckCredentials_projects
    \/ MainMenu_choice
    \/ SelectProject_fetched
    \/ SelectProject_choice
    \/ SelectIssueFromProject_fetched
    \/ SelectIssueFromList_choice
    \/ DisplayIssue_fetched
    \/ CreateNewIssue_summary
    \/ CreateNewIssue_description
    \/ CreateNewIssue_created
    \/ DeleteSelectedIssue_confirmation
    \/ DeleteSelectedIssue_deleted
    \/ MakeJiraRequest_settle
    \/ CreateIssue_projectChecked

Spec == Init /\ [][Next]_vars

(***************************************************************************)
(* The request layer on its own: a caller sets the session and calls one   *)
(* of the API functions, or checkCredentials, with arguments of its        *)
(* choice, the transport settling as above.                                *)
(***************************************************************************)
MaxArgLen == 2

ArgStrings == Strings({"K", " "}, MaxArgLen)
ArgDescriptions == {<<>>, <<" ">>, <<" ", "d">>}
ArgIssueTypes == Optional({<<"Bug">>})
ArgEmails == {<<>>, <<"a", "@", "b">>}
ArgTokens == {<<>>, <<"t">>}
ArgPaths == {<<"/x">>}
ArgMethods == Optional({"GET", "POST", "PUT", "DELETE"})
ArgBodies == Optional({[kind |-> "object", key |-> <<"P">>]})

InitApi ==
    /\ email = <<>>
    /\ apiToken = <<>>
    /\ baseURL = <<>>
    /\ env = [JIRA_EMAIL |-> None, JIRA_API_TOKEN |-> None]
    /\ rl = "open"
    /\ pc = "harness"
    /\ loc = LocInit
    /\ apc = "idle"
    /\ apiArgs = <<>>
    /\ inflight = <<>>
    /\ ret = None
    /\ isValid = None
    /\ calls = <<>>
    /\ ops = <<>>
    /\ settled = None
    /\ oks = <<>>
    /\ typed = None
    /\ out = <<>>

(* The caller has set the session, if at all, and has called nothing yet:  *)
(* it makes one call and lets it run to its end.                           *)
CallerReady ==
    pc = "harness" /\ apc = "idle" /\ ops = <<>> /\ out = <<>> /\ isValid = None

(* A call of an API function by the caller. *)
CallApi(e, name, args) ==
    /\ CallerReady
    /\ Invoke(e, name, args, TRUE)
    /\ Console(<<>>, TRUE)
    /\ isValid' = None
    /\ UNCHANGED <<email, apiToken, baseURL, env, rl, pc, loc, typed>>

Call_setCredentials ==
    /\ CallerReady
    /\ \E jiraEmail \in ArgEmails, jiraToken \in ArgTokens :
           setCredentials(jiraEmail, jiraToken)
    /\ NoCall(TRUE)
    /\ Console(<<>>, TRUE)
    /\ isValid' = None
    /\ UNCHANGED <<env, rl, pc, loc, typed>>

Call_checkCredentials ==
    /\ CallerReady
    /\ CheckCredentials_start(Session, "harness", TRUE, <<>>)
    /\ UNCHANGED <<email, apiToken, baseURL, env, rl, typed>>

Call_makeJiraRequest ==
    \E path \in ArgPaths, method \in ArgMethods, body \in ArgBodies :
        CallApi(Awaiting("makeJiraRequest",
                         makeJiraRequest(Session, path,
                                         [method |-> method, body |-> body])),
                "makeJiraRequest", <<path, method, body>>)

Call_getCurrentUser == CallApi(getCurrentUser(Session), "getCurrentUser", <<>>)

Call_getProjectsList ==
    CallApi(getProjectsList(Session), "getProjectsList", <<>>)

Call_getProject ==
    \E projectKey \in ArgStrings :
        CallApi(getProject(Session, projectKey), "getProject", <<projectKey>>)

Call_getIssuesList ==
    \E projectKey \in ArgStrings :
        CallApi(getIssuesList(Session, projectKey, DefaultMaxResults),
                "getIssuesList", <<projectKey>>)

Call_getIssue ==
    \E issueKey \in ArgStrings :
        CallApi(getIssue(Session, issueKey), "getIssue", <<issueKey>>)

Call_createIssue ==
    \E projectKey \in ArgStrings, summary \in ArgStrings,
       description \in ArgDescriptions, issueType \in ArgIssueTypes :
        CallApi(createIssue(Session, projectKey, summary, description,
                            issueType),
                "createIssue", <<projectKey, summary, description, issueType>>)

Call_deleteIssue ==
    \E issueKey \in ArgStrings :
        CallApi(deleteIssue(Session, issueKey), "deleteIssue", <<issueKey>>)

NextApi ==
    \/ Call_setCredentials
    \/ Call_checkCredentials
    \/ Call_makeJiraRequest
    \/ Call_getCurrentUser
    \/ Call_getProjectsList
    \/ Call_getProject
    \/ Call_getIssuesList
    \/ Call_getIssue
    \/ Call_createIssue
    \/ Call_deleteIssue
    \/ MakeJiraRequest_settle
    \/ CreateIssue_projectChecked
    \/ CheckCredentials_user
    \/ CheckCredentials_projects

SpecApi == InitApi /\ [][NextApi]_vars

(***************************************************************************)
(* The pure functions on their own: an argument is drawn and the function  *)
(* applied to it.                                                          *)
(***************************************************************************)
MaxEmailLen == 4
MaxListLen == 3

PureEmails == Strings({"a", "b", "@", " "}, MaxEmailLen)

InitPure ==
    /\ email = <<>>
    /\ apiToken = <<>>
    /\ baseURL = <<>>
    /\ env = [JIRA_EMAIL |-> None, JIRA_API_TOKEN |-> None]
    /\ rl = "open"
    /\ pc = "pure"
    /\ \/ loc \in [fn : {"generateBaseURLFromEmail"}, input : PureEmails]
       \/ loc \in [fn : {"formatJiraError"}, input : AllErrors]
       \/ loc \in [fn : {"chosenIndex"}, input : ChoiceInputs, n : 1..MaxListLen]
       \/ loc \in [fn : {"confirmed"}, input : ConfirmInputs]
    /\ apc = "idle"
    /\ apiArgs = <<>>
    /\ inflight = <<>>
    /\ ret = None
    /\ isValid = None
    /\ calls = <<>>
    /\ ops = <<>>
    /\ settled = None
    /\ oks = <<>>
    /\ typed = None
    /\ out = <<>>

(* The function loc.fn is applied to loc.input; ret holds its value. *)
Apply(fn, value) ==
    /\ pc = "pure"
    /\ loc.fn = fn
    /\ ret' = Some(value)
    /\ pc' = "applied"
    /\ UNCHANGED <<email, apiToken, baseURL, env, rl, loc, apc, apiArgs,
                   inflight, isValid, calls, ops, settled, oks, typed, out>>

Apply_generateBaseURLFromEmail ==
    Apply("generateBaseURLFromEmail", generateBaseURLFromEmail(loc.input))

Apply_formatJiraError == Apply("formatJiraError", formatJiraError(loc.input))

Apply_chosenIndex == Apply("chosenIndex", chosenIndex(loc.input, loc.n))

Apply_confirmed == Apply("confirmed", confirmed(loc.input))

NextPure ==
    \/ Apply_generateBaseURLFromEmail
    \/ Apply_formatJiraError
    \/ Apply_chosenIndex
    \/ Apply_confirmed

SpecPure == InitPure /\ [][NextPure]_vars

(***************************************************************************)
(* Properties of the request layer (SpecApi).                              *)
(***************************************************************************)
(* A string that is empty or holds whitespace only. *)
Blank(s) == \A i \in 1..Len(s) : s[i] \in Whitespace

(* The API functions that take a required string argument, with the        *)
(* positions of the required arguments.                                    *)
RequiredArgs ==
    [getProject |-> {1}, getIssuesList |-> {1}, getIssue |-> {1},
     deleteIssue |-> {1}, createIssue |-> {1, 2}]

(* The caller's single call is of a function with a blank required         *)
(* argument.                                                               *)
BlankRequiredArg ==
    /\ pc = "harness"
    /\ Len(ops) = 1
    /\ ops[1].op \in DOMAIN RequiredArgs
    /\ \E i \in RequiredArgs[ops[1].op] : Blank(ops[1].args[i])

(* C1: an API function called with an empty or whitespace-only required    *)
(* argument returns at once a result {success: false, error} and issues    *)
(* no transport call.                                                      *)
C1_BlankArgumentIsRejectedLocally ==
    BlankRequiredArg =>
        /\ apc = "returned"
        /\ ~The(ret).success
        /\ calls = <<>>

(***************************************************************************)
(* Properties of the delete flow (Spec).                                   *)
(***************************************************************************)
(* The token "yes" in any letter case. *)
IsYes(c) ==
    /\ Len(c) = 3
    /\ c[1] \in {"y", "Y"}
    /\ c[2] \in {"e", "E"}
    /\ c[3] \in {"s", "S"}

(* How many calls of deleteIssue a log of calls holds, and how many DELETE *)
(* requests a log of requests holds.                                       *)
DeleteCalls(log) == Cardinality({i \in 1..Len(log) : log[i].op = "deleteIssue"})
DeleteRequests(reqs) ==
    Cardinality({i \in 1..Len(reqs) : reqs[i].method = "DELETE"})

(* C2: in the delete flow no deleteIssue has been called when the          *)
(* confirmation is asked; the answer "yes" in any letter case calls        *)
(* deleteIssue once, for the selected issue; any other answer returns to   *)
(* the main menu without a call of the API or a request; and no other step *)
(* calls deleteIssue or issues a DELETE request.                           *)
C2_DeleteOnlyOnYes ==
    [][IF pc = "deleteSelectedIssue_confirmation"
       THEN /\ DeleteCalls(ops) = 0
            /\ DeleteRequests(calls) = 0
            /\ IF IsYes(The(typed'))
               THEN /\ ops' = Append(ops, [op |-> "deleteIssue",
                                          args |-> <<The(loc.selectedIssue).key>>])
                    /\ DeleteRequests(calls') = 1
                    /\ pc' = "deleteSelectedIssue_delete"
               ELSE /\ ops' = ops
                    /\ calls' = calls
                    /\ inflight' = <<>>
                    /\ apc' = "idle"
                    /\ pc' = "mainMenu"
       ELSE /\ DeleteCalls(ops') <= DeleteCalls(ops)
            /\ DeleteRequests(calls') <= DeleteRequests(calls)]_vars

(* The confirmation "Yes" has been given and deleteIssue called. *)
C2_Witness ==
    /\ pc = "deleteSelectedIssue_delete"
    /\ typed = Some(<<"Y", "e", "s">>)
    /\ DeleteCalls(ops) = 1
    /\ DeleteRequests(calls) = 1

(* A confirmation other than "yes" has been given. *)
C2_WitnessDeclined ==
    /\ pc = "mainMenu"
    /\ typed = Some(<<"y">>)
    /\ out[Len(out)] = "Deletion cancelled."

(***************************************************************************)
(* Properties of createIssue (SpecApi).                                    *)
(***************************************************************************)
(* The request is the project check of createIssue for the key. *)
IsProjectCheck(config, key) ==
    /\ config.method = "GET"
    /\ config.url = baseURL \o <<"/rest/api/3", "/project/">> \o trim(key)

IsCreation(config) ==
    /\ config.method = "POST"
    /\ config.url = baseURL \o <<"/rest/api/3", "/issue">>

(* The text of the failed project check's error: the local one of          *)
(* getProject when it made no request, and the normalized error of the     *)
(* failed request otherwise.                                               *)
ProjectCheckError ==
    IF calls = <<>> THEN <<"Project key is required">>
    ELSE formatJiraError(The(settled).error)

(* createIssue has returned after its project check failed. *)
ProjectCheckFailed ==
    /\ pc = "harness"
    /\ Len(ops) = 1
    /\ ops[1].op = "createIssue"
    /\ apc = "returned"
    /\ Truthy(ops[1].args[1])
    /\ Truthy(ops[1].args[2])
    /\ \/ calls = <<>>
       \/ oks = <<FALSE>>

(* C3: createIssue issues the POST /issue request only as its second       *)
(* request, after the GET of the project has succeeded; when the project   *)
(* check fails, it issues no POST and returns {success: false} with the    *)
(* error "Project '<key>' not found or you don't have access to it. "      *)
(* followed by the check's own error.                                      *)
C3_CreateIssueChecksProjectFirst ==
    (pc = "harness" /\ Len(ops) = 1 /\ ops[1].op = "createIssue") =>
        /\ \A i \in 1..Len(calls) :
               IF i = 1 THEN IsProjectCheck(calls[1], ops[1].args[1])
               ELSE /\ i = 2
                    /\ IsCreation(calls[2])
                    /\ Len(oks) >= 1
                    /\ oks[1]
        /\ ProjectCheckFailed =>
               /\ Len(calls) <= 1
               /\ ret = Some([success |-> FALSE,
                              error |-> <<"Project '">> \o ops[1].args[1]
                                  \o <<"' not found or you don't have access to it. ">>
                                  \o ProjectCheckError])

(* The project check of createIssue has failed at the transport. *)
C3_Witness ==
    /\ ProjectCheckFailed
    /\ oks = <<FALSE>>
    /\ The(settled).error.response # None

(* createIssue has issued its POST. *)
C3_WitnessPost ==
    /\ pc = "harness"
    /\ Len(ops) = 1
    /\ ops[1].op = "createIssue"
    /\ Len(calls) = 2
    /\ IsCreation(calls[2])

(***************************************************************************)
(* Properties of formatJiraError (SpecPure).                               *)
(***************************************************************************)
(* The values of an errors object joined with ", ". *)
RECURSIVE JoinedWithComma(_)
JoinedWithComma(values) ==
    IF values = <<>> THEN <<>>
    ELSE IF Len(values) = 1 THEN values[1]
    ELSE JoinedWithComma(SubSeq(values, 1, Len(values) - 1))
             \o <<",", " ">> \o values[Len(values)]

(* The body, the errorMessages array, the errors object and the status of  *)
(* a transport failure, each None where the failure has none.              *)
BodyOf(error) ==
    IF error.response = None THEN None ELSE The(error.response).data
ErrorMessagesOf(error) ==
    IF BodyOf(error) = None THEN None ELSE The(BodyOf(error)).errorMessages
ErrorsOf(error) ==
    IF BodyOf(error) = None THEN None ELSE The(BodyOf(error)).errors
StatusOf(error) ==
    IF error.response = None THEN 0 ELSE The(error.response).status

(* The error string the precedence gives, where firstRule says whether the *)
(* rule of errorMessages applies.                                          *)
ByPrecedence(error, firstRule) ==
    IF firstRule THEN The(ErrorMessagesOf(error))[1]
    ELSE IF ErrorsOf(error) # None THEN JoinedWithComma(The(ErrorsOf(error)))
    ELSE IF StatusOf(error) = 401
    THEN <<"Authentication failed. Please check your email and API token.">>
    ELSE IF StatusOf(error) = 403
    THEN <<"Access denied. You may not have permission for this action.">>
    ELSE IF StatusOf(error) = 404
    THEN <<"Resource not found. Please check the issue key or project key.">>
    ELSE IF error.message # None /\ The(error.message) # <<>>
    THEN The(error.message)
    ELSE <<"Unknown error occurred">>

HasErrorMessages(error) ==
    /\ ErrorMessagesOf(error) # None
    /\ The(ErrorMessagesOf(error)) # <<>>

FormatJiraErrorApplied == pc = "applied" /\ loc.fn = "formatJiraError"

(* C4, as stated: the normalized error is the first entry of errorMessages *)
(* whenever the array is present and non-empty, else the joined values of  *)
(* errors, else the message of status 401, 403 or 404, else the error's    *)
(* message, else "Unknown error occurred".                                 *)
C4_PrecedenceAsStated ==
    FormatJiraErrorApplied =>
        The(ret) = ByPrecedence(loc.input, HasErrorMessages(loc.input))

(* C4, amended: the normalized error is the first entry of errorMessages   *)
(* when the array is present and non-empty and that entry is a non-empty   *)
(* string, else the joined values of errors, else the message of status    *)
(* 401, 403 or 404, else the error's message, else "Unknown error          *)
(* occurred".                                                              *)
C4_Precedence ==
    FormatJiraErrorApplied =>
        The(ret) = ByPrecedence(loc.input,
                                /\ HasErrorMessages(loc.input)
                                /\ The(ErrorMessagesOf(loc.input))[1] # <<>>)

(* formatJiraError has been applied to a failure whose errorMessages array *)
(* starts with an empty entry and whose body holds errors too.             *)
C4_Witness ==
    /\ FormatJiraErrorApplied
    /\ HasErrorMessages(loc.input)
    /\ The(ErrorMessagesOf(loc.input))[1] = <<>>
    /\ ErrorsOf(loc.input) = Some(<<<<"B">>, <<"C">>>>)
    /\ The(ret) = <<"B", ",", " ", "C">>

(* formatJiraError has been applied to a failure that holds both           *)
(* errorMessages and errors.                                               *)
C4_WitnessBoth ==
    /\ FormatJiraErrorApplied
    /\ ErrorMessagesOf(loc.input) = Some(<<<<"A">>>>)
    /\ ErrorsOf(loc.input) = Some(<<<<"B">>>>)
    /\ The(ret) = <<"A">>

(***************************************************************************)
(* Properties of checkCredentials (SpecApi).                               *)
(***************************************************************************)
(* The request is a GET of the path with the credentials of the session. *)
IsGetOf(config, path) ==
    /\ config.method = "GET"
    /\ config.url = baseURL \o <<"/rest/api/3">> \o path
    /\ config.auth = [username |-> email, password |-> apiToken]

(* getCurrentUser and getProjectsList, in this order, were the calls of    *)
(* the running checkCredentials and both succeeded.                        *)
BothChecksSucceeded ==
    /\ Len(calls) = 2
    /\ IsGetOf(calls[1], <<"/myself">>)
    /\ IsGetOf(calls[2], <<"/project">>)
    /\ oks = <<TRUE, TRUE>>

(* getProjectsList has returned to checkCredentials the list of projects. *)
ProjectsListed ==
    /\ pc = "checkCredentials_projects"
    /\ apc = "returned"
    /\ The(ret).success
    /\ The(ret).data.kind = "array"

(* C5: when getCurrentUser has succeeded and getProjectsList succeeds with *)
(* no project, checkCredentials returns false without raising; and when    *)
(* checkCredentials returns true, email and token are non-empty, both      *)
(* calls have succeeded and the list of projects is non-empty.             *)
C5_CheckCredentialsVerdict ==
    [][/\ (ProjectsListed /\ The(ret).data.items = <<>>) =>
              /\ isValid' = Some(FALSE)
              /\ "TypeError" \notin {out'[i] : i \in 1..Len(out')}
       /\ (isValid' = Some(TRUE) /\ isValid # Some(TRUE)) =>
              /\ Truthy(email)
              /\ Truthy(apiToken)
              /\ BothChecksSucceeded
              /\ ProjectsListed
              /\ Len(The(ret).data.items) > 0]_vars

(* checkCredentials has returned false for a user without projects. *)
C5_Witness ==
    /\ pc = "harness"
    /\ isValid = Some(FALSE)
    /\ oks = <<TRUE, TRUE>>
    /\ out = <<"User exists but no projects found.">>

(* checkCredentials has returned true. *)
C5_WitnessValid ==
    /\ pc = "harness"
    /\ isValid = Some(TRUE)

(***************************************************************************)
(* Properties of the selection by number (Spec).                           *)
(***************************************************************************)
(* The answer is a decimal number, white space around it aside. *)
IsNumber(c) ==
    /\ trim(c) # <<>>
    /\ \A i \in 1..Len(trim(c)) : trim(c)[i] \in Digits

NumberOf(c) == decimal(trim(c))

(* The list the selection prompt offers. *)
Offered == IF pc = "selectProject_choice" THEN loc.projects ELSE loc.issues

(* C6: at the prompt of selectProject and of selectIssueFromList over n    *)
(* items, an answer that is a number of 1..n selects the item at index     *)
(* number - 1, and any other answer, out of range or not a number, is the  *)
(* invalid choice: the flow returns to the main menu with no call of the   *)
(* API and no request.                                                     *)
C6_SelectionByNumber ==
    [][(pc \in {"selectProject_choice", "selectIssueFromList_choice"}) =>
           LET c == The(typed')
           IN  IF IsNumber(c) /\ NumberOf(c) \in 1..Len(Offered)
               THEN /\ pc' # "mainMenu"
                    /\ Some(Offered[NumberOf(c)]) =
                           IF pc = "selectProject_choice"
                           THEN loc'.selectedProject ELSE loc'.selectedIssue
               ELSE /\ pc' = "mainMenu"
                    /\ out'[Len(out')] \in {"Invalid project choice.",
                                           "Invalid issue choice."}
                    /\ inflight' = <<>>
                    /\ ops' = ops
                    /\ calls' = calls]_vars

(***************************************************************************)
(* Properties of the session (Spec).                                       *)
(***************************************************************************)
(* The steps of the workflow that call setCredentials: the setup choice    *)
(* of the .env file, and the answer to the token prompt.                   *)
CallsSetCredentials ==
    \/ pc = "setupMenu"
    \/ pc = "enterCredentialsManually_token"

(* C7: baseURL is always empty or the URL generateBaseURLFromEmail gives   *)
(* for the stored email; a step that changes email, apiToken or baseURL is *)
(* a step that calls setCredentials, and it leaves baseURL the URL of the  *)
(* email it stores.                                                        *)
C7_BaseURLFollowsEmail ==
    /\ [](baseURL = <<>> \/ baseURL = generateBaseURLFromEmail(email))
    /\ [][session' # session =>
              /\ CallsSetCredentials
              /\ ops'[1].op = "setCredentials"
              /\ email' = ops'[1].args[1]
              /\ apiToken' = ops'[1].args[2]
              /\ baseURL' = generateBaseURLFromEmail(email')]_vars

(* The session holds the credentials typed at the prompts, verified. *)
C7_Witness ==
    /\ email = <<"a", "@", "b">>
    /\ baseURL = <<"https://", "a", ".atlassian.net">>
    /\ env.JIRA_EMAIL = Some(<<"e", "@", "x">>)
    /\ env.JIRA_API_TOKEN = Some(<<"k">>)
    /\ pc = "mainMenu"

(***************************************************************************)
(* Properties of generateBaseURLFromEmail (SpecPure).                      *)
(***************************************************************************)
(* The positions of '@' in e. *)
AtSigns(e) == {i \in 1..Len(e) : e[i] = "@"}

(* C8: generateBaseURLFromEmail(e) is the empty string when e is empty or  *)
(* holds no '@', and otherwise "https://", then what e holds before its    *)
(* first '@', then ".atlassian.net".                                       *)
C8_BaseURLOfEmail ==
    (pc = "applied" /\ loc.fn = "generateBaseURLFromEmail") =>
        LET e == loc.input
        IN  IF e = <<>> \/ AtSigns(e) = {}
            THEN The(ret) = <<>>
            ELSE \E i \in AtSigns(e) :
                     /\ \A j \in AtSigns(e) : i <= j
                     /\ The(ret) = <<"https://">> \o SubSeq(e, 1, i - 1)
                                       \o <<".atlassian.net">>

(* generateBaseURLFromEmail has been applied to an email with two '@'. *)
C8_Witness ==
    /\ pc = "applied"
    /\ loc.fn = "generateBaseURLFromEmail"
    /\ loc.input = <<"a", "@", "b", "@">>
    /\ The(ret) = <<"https://", "a", ".atlassian.net">>

(***************************************************************************)
(* Properties of makeJiraRequest (SpecApi).                                *)
(***************************************************************************)
(* The caller's single call is of makeJiraRequest. *)
MakeJiraRequestCalled ==
    /\ pc = "harness"
    /\ Len(ops) = 1
    /\ ops[1].op = "makeJiraRequest"

(* The method of the caller's call of makeJiraRequest. *)
MethodCalled ==
    IF ops[1].args[2] = None THEN "GET" ELSE The(ops[1].args[2])

(* C9: a call of makeJiraRequest issues one request, of the method asked   *)
(* for, and issues no other; once the request has settled it has returned  *)
(* a Result: {success: true, data: null} for a DELETE that succeeded,      *)
(* whatever the body, {success: true, data: body} for another method that  *)
(* succeeded, and {success: false, error: a string} for a failure.         *)
C9_OneRequestOneResult ==
    MakeJiraRequestCalled =>
        /\ Len(calls) = 1
        /\ calls[1].method = MethodCalled
        /\ apc \in {"makeJiraRequest", "returned"}
        /\ apc = "makeJiraRequest" => (inflight = calls /\ ret = None)
        /\ apc = "returned" =>
               /\ inflight = <<>>
               /\ settled # None
               /\ IF The(settled).ok
                  THEN ret = Some([success |-> TRUE,
                                   data |-> IF MethodCalled = "DELETE"
                                            THEN [kind |-> "null"]
                                            ELSE The(settled).data])
                  ELSE /\ DOMAIN The(ret) = {"success", "error"}
                       /\ The(ret).success = FALSE
                       /\ The(ret).error \in Seq(STRING)

(* A DELETE request that the remote API answered with a body has returned. *)
C9_Witness ==
    /\ MakeJiraRequestCalled
    /\ MethodCalled = "DELETE"
    /\ apc = "returned"
    /\ The(settled).ok
    /\ The(settled).data.kind = "object"
    /\ The(ret).data = Null

(* A request that failed has returned. *)
C9_WitnessFailure ==
    /\ MakeJiraRequestCalled
    /\ apc = "returned"
    /\ ~The(settled).ok

(***************************************************************************)
(* Properties of the credentials setup (Spec).                             *)
(***************************************************************************)
(* The await points of setupMenu and of the functions it calls. *)
SetupPcs ==
    {"setupMenu", "enterCredentialsManually_email",
     "enterCredentialsManually_token", "checkCredentials_user",
     "checkCredentials_projects"}

(* What the setup logs for an invalid choice, for missing credentials and  *)
(* for a failed verification.                                              *)
SetupFailures ==
    {"Invalid choice. Please enter 1 or 2.",
     "No credentials found in .env file.",
     "Email and API token are required",
     "Please setup credentials first",
     "Credentials test failed:",
     "Error accessing projects:",
     "User exists but no projects found."}

(* The await point that follows a prompt or a call of the setup when it    *)
(* does not fail.                                                          *)
SetupGoesOn ==
    CASE pc = "setupMenu" ->
             {"enterCredentialsManually_email", "checkCredentials_user"}
      [] pc = "enterCredentialsManually_email" ->
             {"enterCredentialsManually_token"}
      [] pc = "enterCredentialsManually_token" -> {"checkCredentials_user"}
      [] pc = "checkCredentials_user" -> {"checkCredentials_projects"}
      [] pc = "checkCredentials_projects" -> {"mainMenu"}

(* C10: the workflow is past the setup only with credentials verified;     *)
(* setupMenu returns to the main menu only in the step where the           *)
(* checkCredentials that followed a setCredentials returns true, its two   *)
(* calls made with the credentials the session holds; a step of the setup  *)
(* otherwise waits for its request, goes on to its next prompt or call,   *)
(* or goes back to the prompt of                                           *)
(* setupMenu, which it does after an invalid choice, missing credentials   *)
(* or a failed verification, the prompt being open to an answer every      *)
(* time; it ends otherwise only by the TypeError of a body without a list. *)
C10_SetupGuardsMainMenu ==
    /\ [](pc \notin SetupPcs \cup {"crashed"} => isValid = Some(TRUE))
    /\ []((out # <<>> /\ out[Len(out)] \in SetupFailures) => pc = "setupMenu")
    /\ [](pc = "setupMenu" => (rl = "open" /\ ENABLED SetupMenu_choice))
    /\ [][(pc \in SetupPcs) =>
              /\ pc' \in SetupGoesOn \cup {pc, "setupMenu", "crashed"}
              /\ pc' = "crashed" =>
                     /\ pc = "checkCredentials_projects"
                     /\ out'[Len(out')] = "TypeError"
              /\ pc' = "mainMenu" =>
                     /\ isValid' = Some(TRUE)
                     /\ session' = session
                     /\ Len(ops) = 3
                     /\ ops[1] = [op |-> "setCredentials",
                                  args |-> <<email, apiToken>>]
                     /\ ops[2].op = "getCurrentUser"
                     /\ ops[3].op = "getProjectsList"
                     /\ BothChecksSucceeded
                     /\ Len(The(ret).data.items) > 0]_vars

(* setupMenu has just returned to main, which enters the main menu. *)
C10_Witness ==
    /\ pc = "mainMenu"
    /\ isValid = Some(TRUE)
    /\ Len(ops) = 3
    /\ ops[1].op = "setCredentials"
    /\ out = <<"Credentials configured successfully!">>

(* The setup is back at its prompt after a failed verification. *)
C10_WitnessFailed ==
    /\ pc = "setupMenu"
    /\ isValid = Some(FALSE)
    /\ out # <<>>
    /\ out[Len(out)] = "Credentials test failed:"

(***************************************************************************)
(* Properties of the main menu and its flows (Spec).                       *)
(***************************************************************************)
(* The await points of the flows the main menu starts. *)
FlowPcs ==
    {"selectProject_fetch", "selectProject_choice",
     "selectIssueFromProject_fetch", "selectIssueFromList_choice",
     "displayIssue", "createNewIssue_summary", "createNewIssue_description",
     "createNewIssue_create", "deleteSelectedIssue_confirmation",
     "deleteSelectedIssue_delete"}

(* How far a flow has come: the rank of its await point, and within an     *)
(* await of an API function the rank of the function's own await.          *)
FlowRank(at, fn) ==
    10 * (CASE at = "selectProject_fetch" -> 1
            [] at = "selectProject_choice" -> 2
            [] at \in {"selectIssueFromProject_fetch",
                       "createNewIssue_summary"} -> 3
            [] at \in {"selectIssueFromList_choice",
                       "createNewIssue_description"} -> 4
            [] at \in {"displayIssue", "createNewIssue_create",
                       "deleteSelectedIssue_confirmation"} -> 5
            [] at = "deleteSelectedIssue_delete" -> 6)
        + (CASE fn = "idle" -> 0
             [] fn = "returned" -> 3
             [] fn = "createIssue_post" -> 2
             [] OTHER -> 1)

(* C11: the answer to the main menu starts the Get, Create or Delete flow, *)
(* re-prompts when it is invalid, or, for Exit alone, ends the workflow;   *)
(* every step of a flow brings the flow further or returns to the prompt   *)
(* of the main menu, whatever its API calls return, and no flow ends the   *)
(* workflow or stops short of the main menu.                               *)
C11_FlowsReturnToMainMenu ==
    /\ [](pc \in FlowPcs \cup {"mainMenu"} => ENABLED Next)
    /\ [](pc = "exited" => ~ENABLED Next)
    /\ [][/\ (pc = "mainMenu") =>
                    \/ /\ pc' = "selectProject_fetch"
                       /\ loc'.flow \in {"get", "create", "delete"}
                    \/ /\ pc' = "mainMenu"
                       /\ out' = <<"Invalid choice. Please enter 1, 2, 3, or 4.">>
                    \/ /\ pc' = "exited"
                       /\ out' = <<"Goodbye!">>
          /\ (pc \in FlowPcs) =>
                    \/ pc' = "mainMenu"
                    \/ /\ pc' \in FlowPcs
                       /\ loc'.flow = loc.flow
                       /\ FlowRank(pc', apc') > FlowRank(pc, apc)
          /\ (pc' = "exited") => pc = "mainMenu"]_vars

(* The get flow is back at the main menu after getIssue returned an error. *)
C11_Witness ==
    /\ pc = "mainMenu"
    /\ Len(ops) = 3
    /\ ops[3].op = "getIssue"
    /\ oks = <<TRUE, TRUE, FALSE>>
    /\ out[Len(out)] = "Error:"

(***************************************************************************)
(* Properties of the sequencing of requests (Spec).                        *)
(***************************************************************************)
(* The await points where the workflow waits for a line of the terminal. *)
PromptPcs ==
    {"setupMenu", "enterCredentialsManually_email",
     "enterCredentialsManually_token", "mainMenu", "selectProject_choice",
     "selectIssueFromList_choice", "createNewIssue_summary",
     "createNewIssue_description", "deleteSelectedIssue_confirmation"}

(* C12: at most one transport request is outstanding; none is while the    *)
(* workflow waits at a prompt or an API function has returned; and a step  *)
(* issues at most one request, with no other request outstanding then      *)
(* but the one that settles in the same step.                              *)
C12_OneOutstandingRequest ==
    /\ [](Len(inflight) <= 1)
    /\ []((pc \in PromptPcs \/ apc \in {"idle", "returned"}) => inflight = <<>>)
    /\ [][(calls' # calls /\ calls' # <<>>) =>
              /\ inflight' = <<calls'[Len(calls')]>>
              /\ \/ inflight = <<>>
                 \/ /\ settled' # None
                    /\ Len(oks') = Len(oks) + 1
                    /\ Len(oks') = Len(calls') - 1]_vars

(* The POST of createIssue is outstanding, its project check settled. *)
C12_Witness ==
    /\ pc = "createNewIssue_create"
    /\ apc = "createIssue_post"
    /\ Len(calls) = 3
    /\ Len(oks) = 2
    /\ inflight = <<calls[3]>>

(***************************************************************************)
(* Properties of the session after the setup (Spec).                       *)
(***************************************************************************)
(* C13: email, apiToken and baseURL change only in a step of the           *)
(* credentials setup that calls setCredentials: no step changes them once  *)
(* setupMenu has returned, and no step in which a request of an API        *)
(* function settles does.                                                  *)
C13_SessionWrittenInSetupOnly ==
    [][/\ (isValid = Some(TRUE) \/ pc \notin SetupPcs) => session' = session
       /\ (inflight # <<>>) => session' = session
       /\ (session' # session) =>
              /\ pc \in {"setupMenu", "enterCredentialsManually_token"}
              /\ pc' \in SetupPcs]_vars

(* A flow has called the API and is back at the main menu, the session     *)
(* being the one set up from the answers to the prompts.                   *)
C13_Witness ==
    /\ pc = "mainMenu"
    /\ out # <<>>
    /\ out[Len(out)] = "Issue deleted successfully!"
    /\ session = <<<<"a", "@", "b">>, <<"t">>,
                   <<"https://", "a", ".atlassian.net">>>>

(* C14: the readline interface is closed exactly when main has finished:   *)
(* after the choice 4 of the main menu and after an exception left         *)
(* setupMenu; it is closed by the step that finishes main and by no other, *)
(* and it is never opened again.                                           *)
C14_InputClosedWhenMainFinishes ==
    /\ []((pc \in {"exited", "crashed"}) <=> (rl = "closed"))
    /\ [][/\ (rl' # rl) => (rl = "open" /\ rl' = "closed")
          /\ (pc' \in {"exited", "crashed"}) => rl' = "closed"]_vars

(* The TypeError of checkCredentials has left setupMenu and main, both     *)
(* requests of checkCredentials having settled, and the interface is       *)
(* closed.                                                                 *)
C14_Witness ==
    /\ pc = "crashed"
    /\ rl = "closed"
    /\ Len(calls) = 2
    /\ oks = <<TRUE, TRUE>>
    /\ inflight = <<>>

(* The states where a flow of the main menu awaits an API function. *)
FlowAwaitPcs ==
    {"selectProject_fetch", "selectIssueFromProject_fetch", "displayIssue",
     "createNewIssue_create", "deleteSelectedIssue_delete"}

(* The states where the credentials setup awaits an API function. *)
SetupAwaitPcs == {"checkCredentials_user", "checkCredentials_projects"}

(* The API function the caller awaits has returned an error result. *)
ErrorReturned == apc = "returned" /\ ret # None /\ ~The(ret).success

(* C15: when the API function a flow awaits returns an error result, the   *)
(* flow logs the error and returns to the main menu (the setup: to the     *)
(* setup menu) in a step that issues no request; a request that failed is  *)
(* the last one of its menu choice, so that none is repeated; and of the    *)
(* prompts only the two menus are asked again by the step that answers     *)
(* them.                                                                   *)
C15_ErrorEndsTheFlow ==
    /\ [](\A i \in 1..Len(oks) : ~oks[i] => i = Len(calls))
    /\ [][/\ (pc \in FlowAwaitPcs /\ ErrorReturned) =>
                 /\ pc' = "mainMenu"
                 /\ calls' = calls
                 /\ inflight' = <<>>
                 /\ out' = Append(out, "Error:")
          /\ (pc \in SetupAwaitPcs /\ ErrorReturned) =>
                 /\ pc' = "setupMenu"
                 /\ calls' = calls
                 /\ inflight' = <<>>
                 /\ isValid' = Some(FALSE)
          /\ (pc \in PromptPcs \ {"setupMenu", "mainMenu"}) => pc' # pc
          /\ (pc' = pc /\ pc \in PromptPcs) =>
                 /\ calls' = <<>>
                 /\ out' \in {<<"Invalid choice. Please enter 1 or 2.">>,
                              <<"No credentials found in .env file.">>,
                              <<"Invalid choice. Please enter 1, 2, 3, or 4.">>}
         ]_vars

(* createIssue has failed at its POST after a project check that           *)
(* succeeded, and the create flow is back at the main menu with the three  *)
(* requests it made.                                                       *)
C15_Witness ==
    /\ pc = "mainMenu"
    /\ Len(ops) = 2
    /\ ops[2].op = "createIssue"
    /\ Len(calls) = 3
    /\ oks = <<TRUE, TRUE, FALSE>>
    /\ out # <<>>
    /\ out[Len(out)] = "Error:"

(* The caller's one call is checkCredentials: it runs, has returned or has *)
(* thrown.                                                                 *)
CheckCredentialsCalled ==
    pc \in SetupAwaitPcs \/ isValid # None \/ out = <<"TypeError">>

(* C16: checkCredentials issues no request when the email or the token of  *)
(* the session is empty; otherwise it issues at most two, GET /myself      *)
(* first and then GET /project, and it calls getProjectsList only in the   *)
(* step where getCurrentUser has returned a success.                       *)
C16_CheckCredentialsCalls ==
    /\ [](CheckCredentialsCalled =>
              /\ (~Truthy(email) \/ ~Truthy(apiToken)) =>
                     /\ calls = <<>>
                     /\ ops = <<>>
                     /\ isValid = Some(FALSE)
                     /\ out = <<"Please setup credentials first">>
              /\ Len(calls) <= 2
              /\ Len(calls) >= 1 => IsGetOf(calls[1], <<"/myself">>)
              /\ Len(calls) = 2 =>
                     /\ IsGetOf(calls[2], <<"/project">>)
                     /\ Len(oks) >= 1
                     /\ oks[1]
              /\ (oks # <<>> /\ ~oks[1]) => Len(calls) = 1)
    /\ [][(pc \in SetupAwaitPcs \/ pc' \in SetupAwaitPcs) =>
              /\ (calls' # calls /\ calls # <<>>) =>
                     /\ pc = "checkCredentials_user"
                     /\ apc = "returned"
                     /\ The(ret).success
                     /\ ops' = Append(ops, [op |-> "getProjectsList",
                                            args |-> <<>>])
              /\ (pc = "checkCredentials_user" /\ ErrorReturned) =>
                     /\ calls' = calls
                     /\ ops' = ops
                     /\ isValid' = Some(FALSE)]_vars

(* checkCredentials has returned false for a failure of getCurrentUser,    *)
(* GET /myself being its only request.                                     *)
C16_Witness ==
    /\ pc = "harness"
    /\ isValid = Some(FALSE)
    /\ Len(calls) = 1
    /\ oks = <<FALSE>>
    /\ out = <<"Credentials test failed:">>

(* checkCredentials has returned false at once for a session whose token   *)
(* is empty.                                                               *)
C16_WitnessEmpty ==
    /\ pc = "harness"
    /\ Truthy(email)
    /\ ~Truthy(apiToken)
    /\ isValid = Some(FALSE)
    /\ calls = <<>>

(***************************************************************************)
(* Properties of the create and delete flows (Spec).                       *)
(***************************************************************************)
(* The states of the create flow after the selection of the project. *)
CreatePcs ==
    {"createNewIssue_summary", "createNewIssue_description",
     "createNewIssue_create"}

(* The step calls the API function op. *)
CallsOp(op) ==
    /\ ops' # ops
    /\ ops' # <<>>
    /\ ops'[Len(ops')].op = op

(* C17: the create flow asks for the summary only with a project selected  *)
(* from the fetched list; at the answer to the description prompt a        *)
(* summary that is blank ends the flow at the main menu with the fetch of  *)
(* the projects as the only request, and any other summary makes the flow  *)
(* call createIssue with the key of the selected project and the trimmed   *)
(* summary; createIssue is called by no other step.                        *)
C17_CreateIssueAfterValidInput ==
    /\ [](pc \in CreatePcs =>
              /\ loc.flow = "create"
              /\ loc.selectedProject # None
              /\ Len(calls) >= 1
              /\ IsGetOf(calls[1], <<"/project">>)
              /\ Len(oks) >= 1
              /\ oks[1])
    /\ [][/\ (pc' = "createNewIssue_summary" /\ pc # pc') =>
                 /\ pc = "selectProject_choice"
                 /\ \E k \in 1..Len(loc.projects) :
                        loc'.selectedProject = Some(loc.projects[k])
          /\ (pc \in CreatePcs /\ pc' \in CreatePcs) =>
                 loc'.selectedProject = loc.selectedProject
          /\ (pc = "createNewIssue_description") =>
                 IF Blank(loc.summary)
                 THEN /\ pc' = "mainMenu"
                      /\ ops' = ops
                      /\ calls' = calls
                      /\ Len(calls) = 1
                      /\ inflight' = <<>>
                      /\ out'[Len(out')] = "Summary is required"
                 ELSE /\ pc' = "createNewIssue_create"
                      /\ CallsOp("createIssue")
                      /\ Len(ops') = Len(ops) + 1
                      /\ ops'[Len(ops')].args[1] = The(loc.selectedProject).key
                      /\ ops'[Len(ops')].args[2] = trim(loc.summary)
                      /\ ~Blank(ops'[Len(ops')].args[2])
          /\ CallsOp("createIssue") => pc = "createNewIssue_description"
         ]_vars

(* The create flow has called createIssue for the second project of the    *)
(* list and a summary typed with a space before it.                        *)
C17_Witness ==
    /\ pc = "createNewIssue_create"
    /\ loc.summary = <<" ", "s">>
    /\ Len(ops) = 2
    /\ ops[2].op = "createIssue"
    /\ ops[2].args[1] = <<"Q">>
    /\ ops[2].args[2] = <<"s">>

(* A summary of one space has ended the create flow at the main menu. *)
C17_WitnessBlank ==
    /\ pc = "mainMenu"
    /\ Len(calls) = 1
    /\ out # <<>>
    /\ out[Len(out)] = "Summary is required"

(***************************************************************************)
(* Properties of the body createIssue posts (SpecApi).                     *)
(***************************************************************************)
(* The document of one paragraph holding the text. *)
SingleParagraph(text) ==
    [type |-> "doc", version |-> 1,
     content |-> <<[type |-> "paragraph",
                    content |-> <<[type |-> "text", text |-> text]>>]>>]

(* The caller's call is createIssue and config is its creation request. *)
CreationOfCall(config) ==
    /\ pc = "harness"
    /\ Len(ops) = 1
    /\ ops[1].op = "createIssue"
    /\ IsCreation(config)

(* C18: the body of the POST of createIssue(projectKey, summary,           *)
(* description, issueType) always holds the project key, the summary and   *)
(* the issue type as passed, "Task" where none is passed; it holds a       *)
(* description exactly when the description passed is not blank, and the   *)
(* description is then the document of one paragraph whose text is the     *)
(* trimmed description.                                                    *)
C18_CreationBody ==
    \A i \in 1..Len(calls) :
        CreationOfCall(calls[i]) =>
            /\ calls[i].data # None
            /\ calls[i].headers.ContentType = Some("application/json")
            /\ LET fields == The(calls[i].data).fields
                   args == ops[1].args
               IN  /\ fields.project = [key |-> args[1]]
                   /\ fields.summary = args[2]
                   /\ fields.issuetype =
                          [name |-> IF args[4] = None THEN <<"Task">>
                                    ELSE The(args[4])]
                   /\ (fields.description # None) <=> ~Blank(args[3])
                   /\ fields.description # None =>
                          The(fields.description)
                              = SingleParagraph(trim(args[3]))

(* createIssue was called with a description that starts with a space and  *)
(* with no issue type, and has posted the trimmed description and the type *)
(* "Task".                                                                 *)
C18_Witness ==
    /\ Len(calls) = 2
    /\ CreationOfCall(calls[2])
    /\ ops[1].args[3] = <<" ", "d">>
    /\ ops[1].args[4] = None
    /\ The(calls[2].data).fields.description = Some(SingleParagraph(<<"d">>))
    /\ The(calls[2].data).fields.issuetype = [name |-> <<"Task">>]

(* createIssue was called with a description of one space and has posted   *)
(* a body without description.                                             *)
C18_WitnessBlank ==
    /\ Len(calls) = 2
    /\ CreationOfCall(calls[2])
    /\ ops[1].args[3] = <<" ">>
    /\ The(calls[2].data).fields.description = None

(* The request is the GET of the search for the issues of the project. *)
IsSearchOf(config, projectKey) ==
    IsGetOf(config, <<"/search?jql=">>
                        \o encodeURIComponent(<<"project = ">> \o projectKey
                                                  \o <<" ORDER BY created ASC">>)
                        \o <<"&maxResults=", "50">>)

(* The request is the DELETE of the issue. *)
IsDeleteOf(config, issueKey) ==
    /\ config.method = "DELETE"
    /\ config.url = baseURL \o <<"/rest/api/3", "/issue/">> \o issueKey
    /\ config.data = None

(* The item of the list that the answer selects when it selects one. *)
Picked(list, answer, item) ==
    /\ \E k \in 1..Len(list) : item = list[k]
    /\ (IsNumber(answer) /\ NumberOf(answer) \in 1..Len(list)) =>
           item = list[NumberOf(answer)]

(* C19: a DELETE request is the third request of a delete flow, after the  *)
(* GET of the projects and the GET of the search for the issues of the     *)
(* selected project, both of which succeeded; the selected project is one  *)
(* of the fetched projects and the selected issue one of the issues the    *)
(* search returned, the one at the number typed; the DELETE is issued at   *)
(* the confirmation for the key of the selected issue; and no step of      *)
(* another flow issues one.                                                *)
C19_DeleteTargetsTheSelectedIssue ==
    /\ [](\A i \in 1..Len(calls) :
              calls[i].method = "DELETE" =>
                  /\ i = 3
                  /\ Len(calls) = 3
                  /\ Len(ops) = 3
                  /\ ops[1] = [op |-> "getProjectsList", args |-> <<>>]
                  /\ ops[2].op = "getIssuesList"
                  /\ ops[3].op = "deleteIssue"
                  /\ IsGetOf(calls[1], <<"/project">>)
                  /\ IsSearchOf(calls[2], ops[2].args[1])
                  /\ IsDeleteOf(calls[3], ops[3].args[1])
                  /\ Len(oks) >= 2
                  /\ oks[1]
                  /\ oks[2]
                  /\ pc = "deleteSelectedIssue_delete" =>
                         /\ loc.flow = "delete"
                         /\ loc.selectedProject # None
                         /\ loc.selectedIssue # None
                         /\ ops[2].args[1] = The(loc.selectedProject).key
                         /\ ops[3].args[1] = The(loc.selectedIssue).key)
    /\ [][/\ (pc = "selectProject_choice" /\ pc' # "mainMenu") =>
                 Picked(loc.projects, The(typed'), The(loc'.selectedProject))
          /\ (pc = "selectIssueFromProject_fetch"
                  /\ pc' = "selectIssueFromList_choice") =>
                 /\ The(ret).success
                 /\ loc'.issues = The(ret).data.issues
                 /\ loc'.selectedProject = loc.selectedProject
                 /\ IsSearchOf(calls[Len(calls)],
                               The(loc.selectedProject).key)
          /\ (pc = "selectIssueFromList_choice" /\ pc' # "mainMenu") =>
                 /\ Picked(loc.issues, The(typed'), The(loc'.selectedIssue))
                 /\ loc'.selectedProject = loc.selectedProject
          /\ (DeleteRequests(calls') > DeleteRequests(calls)) =>
                 /\ pc = "deleteSelectedIssue_confirmation"
                 /\ loc.flow = "delete"
                 /\ loc' = loc
                 /\ IsDeleteOf(calls'[Len(calls')], The(loc.selectedIssue).key)
         ]_vars

(* The delete flow has issued the DELETE of the second issue of a list of  *)
(* two, picked by the answer "2" in the second project.                    *)
C19_Witness ==
    /\ pc = "deleteSelectedIssue_delete"
    /\ Len(calls) = 3
    /\ The(loc.selectedProject).key = <<"Q">>
    /\ The(loc.selectedIssue).key = <<"P", "-", "2">>
    /\ IsDeleteOf(calls[3], <<"P", "-", "2">>)

(***************************************************************************)
(* Properties of the requests of the workflow (Spec).                      *)
(***************************************************************************)
(* What the paths of the API functions start with. *)
PathHeads ==
    {"/myself", "/project", "/project/", "/search?jql=", "/issue", "/issue/"}

(* The request carries the credentials and is addressed below the API root *)
(* of the base URL of the session <<e, t, b>>.                             *)
IsOfSession(config, e, t, b) ==
    /\ config.auth = [username |-> e, password |-> t]
    /\ Len(config.url) >= Len(b) + 2
    /\ SubSeq(config.url, 1, Len(b)) = b
    /\ config.url[Len(b) + 1] = "/rest/api/3"
    /\ config.url[Len(b) + 2] \in PathHeads

(* C20: while the email or the token of the session is empty no request is *)
(* in flight and no step issues one; every request a step issues carries   *)
(* the email and the token the session holds in that step, the ones just   *)
(* set when the step calls setCredentials, and its URL is the base URL of  *)
(* the session followed by /rest/api/3 and the path.                       *)
C20_RequestsUseTheSession ==
    /\ []((~Truthy(email) \/ ~Truthy(apiToken)) =>
              (inflight = <<>> /\ calls = <<>>))
    /\ [](\A i \in 1..Len(calls) :
              IsOfSession(calls[i], email, apiToken, baseURL))
    /\ [][(calls' # calls /\ calls' # <<>>) =>
              /\ Truthy(email')
              /\ Truthy(apiToken')
              /\ IsOfSession(calls'[Len(calls')], email', apiToken', baseURL')
              /\ baseURL' = generateBaseURLFromEmail(email')]_vars

(* The setup has set the credentials of the environment and the request of *)
(* getCurrentUser is in flight with them.                                  *)
C20_Witness ==
    /\ pc = "checkCredentials_user"
    /\ Len(calls) = 1
    /\ inflight = calls
    /\ calls[1].auth = [username |-> <<"e", "@", "x">>, password |-> <<"k">>]
    /\ calls[1].url = <<"https://", "e", ".atlassian.net", "/rest/api/3",
                        "/myself">>

(***************************************************************************)
(* Properties of a setup attempt without credentials (Spec).               *)
(***************************************************************************)
(* The environment lacks the variable or holds the empty string for it. *)
Lacks(variable) == variable = None \/ ~Truthy(The(variable))

(* The answer to the setup prompt is 1 and the environment, the .env file  *)
(* loaded, lacks the email or the token.                                   *)
EnvAttemptWithout ==
    /\ pc = "setupMenu"
    /\ trim(The(typed')) = <<"1">>
    /\ Lacks(env'.JIRA_EMAIL) \/ Lacks(env'.JIRA_API_TOKEN)

(* The token is answered and the email or the token typed is blank. *)
ManualAttemptWithout ==
    /\ pc = "enterCredentialsManually_token"
    /\ Blank(loc.jiraEmail) \/ Blank(The(typed'))

(* The log of calls holds a call of setCredentials. *)
SetCredentialsIn(log) == \E i \in 1..Len(log) : log[i].op = "setCredentials"

(* C21: a setup attempt that lacks the email or the token, JIRA_EMAIL or   *)
(* JIRA_API_TOKEN missing or empty for the choice 1, or the email or the   *)
(* token typed blank for the choice 2, calls neither setCredentials nor an *)
(* API function, leaves email, apiToken and baseURL as they were, issues   *)
(* no request and returns to the prompt of the setup menu.                 *)
C21_AttemptWithoutCredentials ==
    [][(EnvAttemptWithout \/ ManualAttemptWithout) =>
           /\ session' = session
           /\ ~SetCredentialsIn(ops')
           /\ ops' = (IF pc = "setupMenu" THEN <<>> ELSE ops)
           /\ calls' = <<>>
           /\ inflight' = <<>>
           /\ apc' = "idle"
           /\ pc' = "setupMenu"
           /\ rl' = "open"
           /\ out'[Len(out')] \in {"No credentials found in .env file.",
                                   "Email and API token are required"}]_vars

(* With the session set by an earlier attempt whose check failed, an       *)
(* attempt with a token of one space has returned to the setup menu and    *)
(* the session is the earlier one.                                         *)
C21_Witness ==
    /\ pc = "setupMenu"
    /\ typed = Some(<<" ">>)
    /\ out # <<>>
    /\ out[Len(out)] = "Email and API token are required"
    /\ session = <<<<"a", "@", "b">>, <<"t">>,
                   <<"https://", "a", ".atlassian.net">>>>

(* The choice 1 with no token in the environment has returned to the setup *)
(* menu.                                                                   *)
C21_WitnessEnv ==
    /\ pc = "setupMenu"
    /\ typed # None
    /\ trim(The(typed)) = <<"1">>
    /\ env.JIRA_EMAIL # None
    /\ env.JIRA_API_TOKEN = None
    /\ out = <<"No credentials found in .env file.">>

====
